---- MODULE Spec2Model ----
(***************************************************************************)
(* driftctl: the state document (.driftctl/state.yaml), its checkpoints,   *)
(* the guardrail list and the contract-hash drift detector, as one state   *)
(* machine.  One action per public function of src/driftctl; the caller's  *)
(* in-memory ProjectState object is the variable `state`.                  *)
(*                                                                         *)
(* Conventions.  An Optional value is a sequence: <<>> is None / "no such  *)
(* file", <<x>> is the value x.  Strings that the code inspects (guardrail *)
(* rules, checkpoint names) are sequences of one-character strings;        *)
(* strings it only stores (project, stack, paths, summaries) are atoms.    *)
(***************************************************************************)
EXTENDS Integers, Sequences, FiniteSets, TLC

VARIABLES
    state_file,     \* Optional bytes of <root>/.driftctl/state.yaml
    cp_dir,         \* whether <root>/.driftctl/checkpoints exists
    checkpoints,    \* file stem -> Optional bytes of checkpoints/<stem>.yaml
    files,          \* path -> Optional content of the project's other files
    clock,          \* what datetime.now(timezone.utc) returns
    state,          \* Optional ProjectState held by the caller
    last,           \* the most recent call: [op, args, raised, ret]
    at_save,        \* history: stem -> Optional bytes of state.yaml when
                    \* save_checkpoint last wrote that stem
    cp_before,      \* history: checkpoints as it was one step ago
    claude_md,      \* Optional content of <root>/CLAUDE.md
    inflight        \* the add_rule calls of concurrent invocations: where
                    \* each one stands, and the order of their file accesses

vars ==
    <<state_file, cp_dir, checkpoints, files, clock, state, last, at_save,
      cp_before, claude_md, inflight>>

-----------------------------------------------------------------------------
(* Bounds of the model *)

MaxClock == 2       \* the clock is read at instants 0..MaxClock
MaxContent == 2     \* schema files hold one of the contents 0..MaxContent
MaxPad == 1         \* whitespace characters put around a rule argument
MaxSessions == 1    \* sessions appended to one document
MaxComponents == 2  \* components registered in one document

-----------------------------------------------------------------------------
(* Optional values and Python truthiness *)

None == <<>>
Some(x) == <<x>>

\* `not x` for an Optional[str]: None and the empty string are falsy.
Falsy(x) == x = None \/ x = Some("")

-----------------------------------------------------------------------------
(* Character strings: str.strip, str.startswith, `in` *)

Whitespace == {" ", "\t"}

RECURSIVE lstrip(_)
lstrip(s) ==
    IF s # <<>> /\ Head(s) \in Whitespace THEN lstrip(Tail(s)) ELSE s

RECURSIVE rstrip(_)
rstrip(s) ==
    IF s # <<>> /\ s[Len(s)] \in Whitespace
    THEN rstrip(SubSeq(s, 1, Len(s) - 1))
    ELSE s

\* Faulty variant of strip: only the leading whitespace goes.
strip_leading_only(s) == lstrip(s)

strip(s) == rstrip(lstrip(s))

Contains(seq, x) == \E i \in 1..Len(seq) : seq[i] = x

\* ord(c) of the characters that checkpoint names are spelled with.
CodePoint == ("1" :> 49) @@ ("2" :> 50) @@ ("V" :> 86) @@ ("v" :> 118)

startswith(s, prefix) ==
    Len(s) >= Len(prefix) /\ SubSeq(s, 1, Len(prefix)) = prefix

\* s[n:]
From(s, n) == SubSeq(s, n + 1, Len(s))

\* list.remove(x): drops the first occurrence only.
RemoveFirst(seq, x) ==
    LET i == CHOOSE k \in 1..Len(seq) :
                 seq[k] = x /\ \A j \in 1..(k - 1) : seq[j] # x
    IN  SubSeq(seq, 1, i - 1) \o SubSeq(seq, i + 1, Len(seq))

NoDuplicates(seq) ==
    \A i, j \in 1..Len(seq) : seq[i] = seq[j] => i = j

-----------------------------------------------------------------------------
(* Enumerations: member name -> serialized value *)

ComponentStatus ==
    ("PENDING" :> "pending") @@ ("IN_PROGRESS" :> "in_progress") @@
    ("COMPLETE" :> "complete") @@ ("BLOCKED" :> "blocked")

AgentType ==
    ("CLAUDE_CODE" :> "claude-code") @@ ("CURSOR" :> "cursor") @@
    ("COPILOT" :> "copilot") @@ ("OTHER" :> "other")

\* Enum(value): the member whose value is `value`.
MemberOf(enum, value) == CHOOSE m \in DOMAIN enum : enum[m] = value
IsValueOf(enum, value) == \E m \in DOMAIN enum : enum[m] = value

-----------------------------------------------------------------------------
(* Schema models *)

Component(status, output_schema, contract_hash, depends_on) ==
    [status |-> status, output_schema |-> output_schema,
     contract_hash |-> contract_hash, depends_on |-> depends_on]

Session(date, summary, commits) ==
    [date |-> date, summary |-> summary, commits |-> commits]

\* components is a dict: a sequence of <<key, Component>> in insertion order.
ProjectState(project, agent, stack, test_command, now) ==
    [version |-> "0.1.0", project |-> project, agent |-> agent,
     stack |-> stack, test_command |-> test_command, last_updated |-> now,
     components |-> <<>>, sessions |-> <<>>, guardrails |-> <<>>]

HasKey(dict, key) == \E i \in 1..Len(dict) : dict[i][1] = key
Keys(dict) == {dict[i][1] : i \in 1..Len(dict)}
Get(dict, key) == dict[CHOOSE i \in 1..Len(dict) : dict[i][1] = key][2]

\* dict[key] = value: an existing key keeps its place, a new one goes last.
SetItem(dict, key, value) ==
    IF HasKey(dict, key)
    THEN [i \in 1..Len(dict) |->
             IF dict[i][1] = key THEN <<key, value>> ELSE dict[i]]
    ELSE Append(dict, <<key, value>>)

-----------------------------------------------------------------------------
(* compute_contract_hash: MD5 maps byte strings of any length onto 128    *)
(* bits, so it is many-to-one; the model keeps that shape on the contents  *)
(* 0..MaxContent, which it folds onto MaxContent digests.                  *)

Contents == 0..MaxContent

\* hexdigest(): a non-empty string.
md5(bytes) == ToString(bytes % MaxContent)

\* Faulty variant of compute_contract_hash: the digest is taken of the path,
\* not of the bytes read from it.
compute_contract_hash_of_path(fs, filepath) ==
    IF filepath \notin DOMAIN fs \/ fs[filepath] = None
    THEN None
    ELSE Some(filepath)

compute_contract_hash(fs, filepath) ==
    IF filepath \notin DOMAIN fs \/ fs[filepath] = None
    THEN None
    ELSE Some(md5(fs[filepath][1]))

-----------------------------------------------------------------------------
(* Serialization: model_dump(mode="json"), yaml.dump, yaml.safe_load,      *)
(* ProjectState.model_validate                                             *)

\* A YAML scalar node: a string scalar (quoted as needed) or null.
YStr(s) == <<"str", s>>
YNull == <<"null">>
YOpt(x) == IF x = None THEN YNull ELSE YStr(x[1])
UnYOpt(node) == IF node = YNull THEN None ELSE Some(node[2])

\* Faulty variant of model_dump: without mode="json" the enum members are
\* dumped as members, not as their values.
model_dump_python(st) ==
    [version |-> st.version, project |-> st.project,
     agent |-> st.agent, stack |-> st.stack,
     test_command |-> st.test_command, last_updated |-> st.last_updated,
     components |->
        [i \in 1..Len(st.components) |->
            LET comp == st.components[i][2]
            IN  <<st.components[i][1],
                  [status |-> comp.status,
                   output_schema |-> comp.output_schema,
                   contract_hash |-> comp.contract_hash,
                   depends_on |-> comp.depends_on]>>],
     sessions |-> st.sessions, guardrails |-> st.guardrails]

\* state.model_dump(mode="json"): enum members become their values.
model_dump(st) ==
    [version |-> st.version, project |-> st.project,
     agent |-> AgentType[st.agent], stack |-> st.stack,
     test_command |-> st.test_command, last_updated |-> st.last_updated,
     components |->
        [i \in 1..Len(st.components) |->
            LET comp == st.components[i][2]
            IN  <<st.components[i][1],
                  [status |-> ComponentStatus[comp.status],
                   output_schema |-> comp.output_schema,
                   contract_hash |-> comp.contract_hash,
                   depends_on |-> comp.depends_on]>>],
     sessions |-> st.sessions, guardrails |-> st.guardrails]

\* yaml.dump(data, default_flow_style=False, sort_keys=False): the document
\* text, as its nodes in the order written.
yaml_dump(data) ==
    [version |-> YStr(data.version), project |-> YStr(data.project),
     agent |-> YStr(data.agent), stack |-> YStr(data.stack),
     test_command |-> YStr(data.test_command),
     last_updated |-> YStr(data.last_updated),
     components |->
        [i \in 1..Len(data.components) |->
            LET comp == data.components[i][2]
            IN  <<YStr(data.components[i][1]),
                  [status |-> YStr(comp.status),
                   output_schema |-> YOpt(comp.output_schema),
                   contract_hash |-> YOpt(comp.contract_hash),
                   depends_on |-> YOpt(comp.depends_on)]>>],
     sessions |->
        [i \in 1..Len(data.sessions) |->
            LET session == data.sessions[i]
            IN  [date |-> YStr(session.date),
                 summary |-> YStr(session.summary),
                 commits |-> [j \in 1..Len(session.commits) |->
                                 YStr(session.commits[j])]]],
     guardrails |->
        [i \in 1..Len(data.guardrails) |-> YStr(data.guardrails[i])]]

\* yaml.safe_load(text)
yaml_safe_load(text) ==
    [version |-> text.version[2], project |-> text.project[2],
     agent |-> text.agent[2], stack |-> text.stack[2],
     test_command |-> text.test_command[2],
     last_updated |-> text.last_updated[2],
     components |->
        [i \in 1..Len(text.components) |->
            LET comp == text.components[i][2]
            IN  <<text.components[i][1][2],
                  [status |-> comp.status[2],
                   output_schema |-> UnYOpt(comp.output_schema),
                   contract_hash |-> UnYOpt(comp.contract_hash),
                   depends_on |-> UnYOpt(comp.depends_on)]>>],
     sessions |->
        [i \in 1..Len(text.sessions) |->
            LET session == text.sessions[i]
            IN  [date |-> session.date[2],
                 summary |-> session.summary[2],
                 commits |-> [j \in 1..Len(session.commits) |->
                                 session.commits[j][2]]]],
     guardrails |->
        [i \in 1..Len(text.guardrails) |-> text.guardrails[i][2]]]

\* Whether model_validate accepts `raw`: the two closed enumerations are
\* the fields a document written by save_state can get wrong.
Validates(raw) ==
    /\ IsValueOf(AgentType, raw.agent)
    /\ \A i \in 1..Len(raw.components) :
           IsValueOf(ComponentStatus, raw.components[i][2].status)

\* ProjectState.model_validate(raw), for a raw that validates.
model_validate(raw) ==
    [version |-> raw.version, project |-> raw.project,
     agent |-> MemberOf(AgentType, raw.agent), stack |-> raw.stack,
     test_command |-> raw.test_command, last_updated |-> raw.last_updated,
     components |->
        [i \in 1..Len(raw.components) |->
            LET comp == raw.components[i][2]
            IN  <<raw.components[i][1],
                  Component(MemberOf(ComponentStatus, comp.status),
                            comp.output_schema, comp.contract_hash,
                            comp.depends_on)>>],
     sessions |->
        [i \in 1..Len(raw.sessions) |->
            LET session == raw.sessions[i]
            IN  Session(session.date, session.summary, session.commits)],
     guardrails |-> raw.guardrails]

-----------------------------------------------------------------------------
(* State engine: what each function returns or raises *)

Raise(error) == [raised |-> error]
Return(value) == [raised |-> "", ret |-> value]

\* The text of a file that is not a document yaml.dump wrote: `n` bytes
\* left by interrupted or overlapping writes.  Raw(0) is the empty file an
\* open for writing leaves behind until the text is written.
Raw(n) == [raw |-> n]
IsRaw(text) == DOMAIN text = {"raw"}

\* Faulty variant of load_state: the parsed document is returned as it is,
\* without ProjectState.model_validate.
load_state_unvalidated(file) ==
    IF file = None
    THEN Raise("FileNotFoundError")
    ELSE IF IsRaw(file[1])
    THEN Raise("YAMLError")
    ELSE Return(yaml_safe_load(file[1]))

\* load_state(project_root), reading `file`.
load_state(file) ==
    IF file = None
    THEN Raise("FileNotFoundError")
    ELSE IF IsRaw(file[1])
    THEN IF file[1] = Raw(0)
         THEN Raise("ValidationError")
         ELSE Raise("YAMLError")
    ELSE LET raw == yaml_safe_load(file[1])
         IN  IF Validates(raw)
             THEN Return(model_validate(raw))
             ELSE Raise("ValidationError")

\* save_state stamps the object it is given, then writes it whole.
Stamp(st, now) == [st EXCEPT !.last_updated = now]
Written(st) == Some(yaml_dump(model_dump(st)))

Call(op, args, outcome) ==
    [op |-> op, args |-> args, raised |-> outcome.raised,
     ret |-> IF outcome.raised = "" THEN outcome.ret ELSE None]

-----------------------------------------------------------------------------
(* Inputs *)

Projects == {"proj", "modified"}
Agents == {"OTHER", "CURSOR"}
Stacks == {"python"}
TestCommands == {"pytest"}
ComponentNames == {"api", "db"}
Paths == {"a.json", "b.json"}
Summaries == {"did work"}
Commits == {<<>>, <<"abc123">>}

\* Rule arguments: a rule (or nothing) inside up to MaxPad whitespace
\* characters on each side.
Pad(n) == [i \in 1..n |-> IF i % 2 = 1 THEN " " ELSE "\t"]
Padded(cores) ==
    {Pad(l) \o core \o Pad(r) : core \in cores, l \in 0..MaxPad, r \in 0..MaxPad}

RuleCores == {<<>>, <<"a">>, <<"b">>, <<"a", " ", "b">>}
RuleArgs == Padded(RuleCores)

CheckpointCores ==
    {<<>>, <<"v", "1">>, <<"v", "2">>, <<"V", "2">>, <<"a", "/", "b">>}
CheckpointArgs == Padded(CheckpointCores)

\* The names save_checkpoint accepts, hence the files checkpoints/ can hold.
ValidName(name) ==
    name # <<>> /\ ~Contains(name, "/") /\ ~Contains(name, "\\")
Stems == {strip(n) : n \in {a \in CheckpointArgs : ValidName(strip(a))}}

\* The invocations that can run at the same time on one project root, and
\* one that has not started.
Invocations == {1, 2}
Idle == [pc |-> "idle"]
NoneInFlight == [calls |-> [p \in Invocations |-> Idle], log |-> <<>>]

-----------------------------------------------------------------------------
(* Initial state: a project root that holds nothing yet *)

Init ==
    /\ state_file = None
    /\ cp_dir = FALSE
    /\ checkpoints = [n \in Stems |-> None]
    /\ files = [p \in Paths |-> None]
    /\ clock = 0
    /\ state = None
    /\ last = [op |-> "", args |-> <<>>, raised |-> "", ret |-> None]
    /\ at_save = [n \in Stems |-> None]
    /\ cp_before = [n \in Stems |-> None]
    /\ claude_md = None
    /\ inflight = NoneInFlight

-----------------------------------------------------------------------------
(* The environment: the clock advances, project files are written/removed *)

Tick ==
    /\ clock < MaxClock
    /\ clock' = clock + 1
    /\ last' = Call("tick", <<>>, Return(None))
    /\ UNCHANGED <<state_file, cp_dir, checkpoints, files, state, at_save>>
    /\ cp_before' = checkpoints
    /\ UNCHANGED <<claude_md, inflight>>

WriteFile(path, bytes) ==
    /\ files' = [files EXCEPT ![path] = Some(bytes)]
    /\ last' = Call("write_file", <<path>>, Return(None))
    /\ UNCHANGED <<state_file, cp_dir, checkpoints, clock, state, at_save>>
    /\ cp_before' = checkpoints
    /\ UNCHANGED <<claude_md, inflight>>

\* state.yaml edited by hand into a document that yaml.safe_load reads
\* and the schema rejects: `agent` is no value of AgentType.
Corrupted(file) == Some([file[1] EXCEPT !.agent = YStr("bogus")])

CorruptState ==
    /\ state_file # None
    /\ state_file' = Corrupted(state_file)
    /\ last' = Call("corrupt_state", <<>>, Return(None))
    /\ UNCHANGED <<cp_dir, checkpoints, files, clock, state, at_save>>
    /\ cp_before' = checkpoints
    /\ UNCHANGED <<claude_md, inflight>>

\* The same done to the checkpoint file checkpoints/<stem>.yaml.
CorruptCheckpoint(stem) ==
    /\ checkpoints[stem] # None
    /\ checkpoints' = [checkpoints EXCEPT ![stem] = Corrupted(@)]
    /\ last' = Call("corrupt_checkpoint", <<stem>>, Return(None))
    /\ UNCHANGED <<state_file, cp_dir, files, clock, state, at_save>>
    /\ cp_before' = checkpoints
    /\ UNCHANGED <<claude_md, inflight>>

\* state.yaml edited by hand so that the status of its first component is
\* no value of ComponentStatus.
CorruptStatus ==
    /\ state_file # None
    /\ Len(state_file[1].components) > 0
    /\ state_file' =
           Some([state_file[1] EXCEPT
                    !.components[1][2].status = YStr("bogus")])
    /\ last' = Call("corrupt_status", <<>>, Return(None))
    /\ UNCHANGED <<cp_dir, checkpoints, files, clock, state, at_save>>
    /\ cp_before' = checkpoints
    /\ UNCHANGED <<claude_md, inflight>>

\* state.yaml removed from outside.
RemoveState ==
    /\ state_file # None
    /\ state_file' = None
    /\ last' = Call("remove_state", <<>>, Return(None))
    /\ UNCHANGED <<cp_dir, checkpoints, files, clock, state, at_save>>
    /\ cp_before' = checkpoints
    /\ UNCHANGED <<claude_md, inflight>>

DeleteFile(path) ==
    /\ files[path] # None
    /\ files' = [files EXCEPT ![path] = None]
    /\ last' = Call("delete_file", <<path>>, Return(None))
    /\ UNCHANGED <<state_file, cp_dir, checkpoints, clock, state, at_save>>
    /\ cp_before' = checkpoints
    /\ UNCHANGED <<claude_md, inflight>>

-----------------------------------------------------------------------------
(* State engine *)

\* Faulty variant of save_state: every contract_hash is recomputed from the
\* schema file as it is when the document is written.
save_state_rehash(st, now) ==
    LET comps == st.components
        rehashed ==
            [i \in 1..Len(comps) |->
                LET comp == comps[i][2]
                IN  <<comps[i][1],
                      [comp EXCEPT !.contract_hash =
                          IF Falsy(comp.output_schema)
                          THEN None
                          ELSE compute_contract_hash(files,
                                                     comp.output_schema[1])]>>]
        stamped == [st EXCEPT !.components = rehashed, !.last_updated = now]
    IN  [state |-> stamped, file |-> Written(stamped)]

\* Faulty variant of save_state: last_updated is not refreshed.
save_state_unstamped(st, now) ==
    [state |-> st, file |-> Written(st)]

\* save_state(project_root, st) at instant `now`: the stamped object and
\* the bytes written.
save_state(st, now) ==
    [state |-> Stamp(st, now), file |-> Written(Stamp(st, now))]

\* Faulty variant of init_state: an existing state document is kept.
InitState_keeps_existing(project, agent, stack, test_command) ==
    LET saved == save_state(
            ProjectState(project, agent, stack, test_command, clock), clock)
    IN  /\ state_file' = IF state_file = None THEN saved.file ELSE state_file
        /\ state' = Some(saved.state)
        /\ last' = Call("init_state", <<project, agent, stack, test_command>>,
                        Return(None))
        /\ UNCHANGED <<cp_dir, checkpoints, files, clock, at_save>>
        /\ cp_before' = checkpoints
        /\ UNCHANGED <<claude_md, inflight>>

InitState(project, agent, stack, test_command) ==
    LET saved == save_state(
            ProjectState(project, agent, stack, test_command, clock), clock)
    IN  /\ state_file' = saved.file
        /\ state' = Some(saved.state)
        /\ last' = Call("init_state", <<project, agent, stack, test_command>>,
                        Return(None))
        /\ UNCHANGED <<cp_dir, checkpoints, files, clock, at_save>>
        /\ cp_before' = checkpoints
        /\ UNCHANGED <<claude_md, inflight>>

\* state = load_state(project_root)
LoadState ==
    LET loaded == load_state(state_file)
    IN  /\ state' = IF loaded.raised = "" THEN Some(loaded.ret) ELSE state
        /\ last' = Call("load_state", <<>>, loaded)
        /\ UNCHANGED <<state_file, cp_dir, checkpoints, files, clock, at_save>>
        /\ cp_before' = checkpoints
        /\ UNCHANGED <<claude_md, inflight>>

\* save_state(project_root, state)
SaveState ==
    /\ state # None
    /\ LET saved == save_state(state[1], clock)
       IN  /\ state_file' = saved.file
           /\ state' = Some(saved.state)
           /\ last' = Call("save_state", <<>>, Return(None))
    /\ UNCHANGED <<cp_dir, checkpoints, files, clock, at_save>>
    /\ cp_before' = checkpoints
    /\ UNCHANGED <<claude_md, inflight>>

add_component(st, fs, name, status, output_schema, depends_on) ==
    LET contract_hash ==
            IF ~Falsy(output_schema)
            THEN compute_contract_hash(fs, output_schema[1])
            ELSE None
    IN  [st EXCEPT !.components =
            SetItem(@, name,
                    Component(status, output_schema, contract_hash, depends_on))]

AddComponent(name, status, output_schema, depends_on) ==
    /\ state # None
    /\ HasKey(state[1].components, name)
          \/ Len(state[1].components) < MaxComponents
    /\ LET st == add_component(state[1], files, name, status, output_schema,
                               depends_on)
       IN  /\ state' = Some(st)
           /\ last' = Call("add_component",
                           <<name, status, output_schema, depends_on>>,
                           Return(None))
    /\ UNCHANGED <<state_file, cp_dir, checkpoints, files, clock, at_save>>
    /\ cp_before' = checkpoints
    /\ UNCHANGED <<claude_md, inflight>>

\* The calendar date of an instant: two instants to a day.
DateOf(now) == now \div 2

\* Faulty variant of add_session: the new session goes first.
add_session_prepends(st, now, summary, commits) ==
    [st EXCEPT !.sessions = <<Session(DateOf(now), summary, commits)>> \o @]

add_session(st, now, summary, commits) ==
    [st EXCEPT !.sessions = Append(@, Session(DateOf(now), summary, commits))]

AddSession(summary, commits) ==
    /\ state # None
    /\ Len(state[1].sessions) < MaxSessions
    /\ LET st == add_session(state[1], clock, summary, commits)
       IN  /\ state' = Some(st)
           /\ last' = Call("add_session", <<summary, commits>>, Return(None))
    /\ UNCHANGED <<state_file, cp_dir, checkpoints, files, clock, at_save>>
    /\ cp_before' = checkpoints
    /\ UNCHANGED <<claude_md, inflight>>

\* add_session on a state that holds fewer than `limit` sessions.
AddSessionWithin(limit, summary, commits) ==
    /\ state # None
    /\ Len(state[1].sessions) < limit
    /\ LET st == add_session(state[1], clock, summary, commits)
       IN  /\ state' = Some(st)
           /\ last' = Call("add_session", <<summary, commits>>, Return(None))
    /\ UNCHANGED <<state_file, cp_dir, checkpoints, files, clock, at_save>>
    /\ cp_before' = checkpoints
    /\ UNCHANGED <<claude_md, inflight>>

-----------------------------------------------------------------------------
(* Guard: rule management *)

\* Faulty variant of add_rule: the membership test is missing.
add_rule_unchecked(file, now, rule) ==
    LET loaded == load_state(file)
        stripped == strip(rule)
    IN  IF loaded.raised # ""
        THEN [outcome |-> loaded, file |-> file]
        ELSE IF stripped # <<>>
        THEN LET saved == save_state(
                     [loaded.ret EXCEPT !.guardrails = Append(@, stripped)],
                     now)
             IN  [outcome |-> Return(saved.state.guardrails),
                  file |-> saved.file]
        ELSE [outcome |-> Return(loaded.ret.guardrails), file |-> file]

\* Faulty variant of add_rule: save_state is called on every path.
add_rule_always_saves(file, now, rule) ==
    LET loaded == load_state(file)
        stripped == strip(rule)
    IN  IF loaded.raised # ""
        THEN [outcome |-> loaded, file |-> file]
        ELSE LET st == IF stripped # <<>>
                          /\ ~Contains(loaded.ret.guardrails, stripped)
                       THEN [loaded.ret EXCEPT
                                !.guardrails = Append(@, stripped)]
                       ELSE loaded.ret
                 saved == save_state(st, now)
             IN  [outcome |-> Return(saved.state.guardrails),
                  file |-> saved.file]

\* add_rule(project_root, rule) on `file` at instant `now`: the outcome and
\* the bytes of state.yaml afterwards.
add_rule(file, now, rule) ==
    LET loaded == load_state(file)
        stripped == strip(rule)
    IN  IF loaded.raised # ""
        THEN [outcome |-> loaded, file |-> file]
        ELSE IF stripped # <<>> /\ ~Contains(loaded.ret.guardrails, stripped)
        THEN LET saved == save_state(
                     [loaded.ret EXCEPT !.guardrails = Append(@, stripped)],
                     now)
             IN  [outcome |-> Return(saved.state.guardrails),
                  file |-> saved.file]
        ELSE [outcome |-> Return(loaded.ret.guardrails), file |-> file]

\* remove_rule(project_root, rule)
remove_rule(file, now, rule) ==
    LET loaded == load_state(file)
        stripped == strip(rule)
    IN  IF loaded.raised # ""
        THEN [outcome |-> loaded, file |-> file]
        ELSE IF Contains(loaded.ret.guardrails, stripped)
        THEN LET saved == save_state(
                     [loaded.ret EXCEPT
                         !.guardrails = RemoveFirst(@, stripped)],
                     now)
             IN  [outcome |-> Return(saved.state.guardrails),
                  file |-> saved.file]
        ELSE [outcome |-> Return(loaded.ret.guardrails), file |-> file]

AddRule(rule) ==
    LET done == add_rule(state_file, clock, rule)
    IN  /\ state_file' = done.file
        /\ last' = Call("add_rule", <<rule>>, done.outcome)
        /\ UNCHANGED <<cp_dir, checkpoints, files, clock, state, at_save>>
        /\ cp_before' = checkpoints
        /\ UNCHANGED <<claude_md, inflight>>

RemoveRule(rule) ==
    LET done == remove_rule(state_file, clock, rule)
    IN  /\ state_file' = done.file
        /\ last' = Call("remove_rule", <<rule>>, done.outcome)
        /\ UNCHANGED <<cp_dir, checkpoints, files, clock, state, at_save>>
        /\ cp_before' = checkpoints
        /\ UNCHANGED <<claude_md, inflight>>

-----------------------------------------------------------------------------
(* Guard: add_rule run by concurrent invocations.  Between its load_state   *)
(* and its save_state, and inside save_state between the open that          *)
(* truncates state.yaml and the write of the text, other invocations run.   *)

\* The length of the guardrails part of a dumped document, the only part
\* whose length differs between documents that differ in guardrails and
\* last_updated: " []" and a newline, or a newline and one "- rule" line
\* for each rule.
RECURSIVE RulesLength(_)
RulesLength(rules) ==
    IF rules = <<>>
    THEN 0
    ELSE 3 + Len(Head(rules)[2]) + RulesLength(Tail(rules))

Size(text) ==
    IF IsRaw(text)
    THEN text.raw
    ELSE IF text.guardrails = <<>> THEN 4 ELSE 1 + RulesLength(text.guardrails)

\* The file after `text` is written from offset 0 over `current`: bytes of
\* `current` beyond the end of `text` stay where they are.
Overlay(text, current) ==
    IF Size(current) > Size(text) THEN Raw(Size(current)) ELSE text

Logged(event, p) ==
    [inflight EXCEPT !.log = Append(@, <<event, p>>)]

\* add_rule up to the call of save_state: load, strip, append.
BeginAddRule(p, rule) ==
    /\ inflight.calls[p].pc = "idle"
    /\ LET loaded == load_state(state_file)
           stripped == strip(rule)
       IN  inflight' =
               [Logged("load", p) EXCEPT !.calls[p] =
                   IF loaded.raised # ""
                   THEN [pc |-> "done", raised |-> loaded.raised]
                   ELSE IF /\ stripped # <<>>
                           /\ ~Contains(loaded.ret.guardrails, stripped)
                   THEN [pc |-> "mutated", seen |-> state_file,
                         rule |-> stripped,
                         state |-> [loaded.ret EXCEPT
                                       !.guardrails = Append(@, stripped)]]
                   ELSE [pc |-> "done", raised |-> "",
                         state |-> loaded.ret]]
    /\ last' = Call("add_rule: load_state", <<p, rule>>, Return(None))
    /\ UNCHANGED <<state_file, cp_dir, checkpoints, files, clock, state,
                   at_save, claude_md>>
    /\ cp_before' = checkpoints

\* Variant of OpenState with conflict detection: the save is refused when
\* state.yaml is no longer what the invocation loaded.
OpenState_detects_conflict(p) ==
    /\ inflight.calls[p].pc = "mutated"
    /\ IF state_file # inflight.calls[p].seen
       THEN /\ inflight' =
                   [Logged("open", p) EXCEPT !.calls[p] =
                       [pc |-> "done", raised |-> "ConflictError",
                        rule |-> @.rule]]
            /\ UNCHANGED state_file
       ELSE /\ inflight' =
                   [Logged("open", p) EXCEPT !.calls[p] =
                       [@ EXCEPT !.pc = "opened",
                                 !.state = Stamp(@, clock)]]
            /\ state_file' = Some(Raw(0))
    /\ last' = Call("add_rule: open", <<p>>, Return(None))
    /\ UNCHANGED <<cp_dir, checkpoints, files, clock, state, at_save,
                   claude_md>>
    /\ cp_before' = checkpoints

\* save_state up to the open of write_text: the state is stamped and
\* state.yaml is opened for writing, which truncates it.
OpenState(p) ==
    /\ inflight.calls[p].pc = "mutated"
    /\ inflight' =
           [Logged("open", p) EXCEPT !.calls[p] =
               [@ EXCEPT !.pc = "opened", !.state = Stamp(@, clock)]]
    /\ state_file' = Some(Raw(0))
    /\ last' = Call("add_rule: open", <<p>>, Return(None))
    /\ UNCHANGED <<cp_dir, checkpoints, files, clock, state, at_save,
                   claude_md>>
    /\ cp_before' = checkpoints

\* The rest of write_text, and add_rule returning: the text goes into the
\* file from offset 0 and the file is closed.
WriteState(p) ==
    /\ inflight.calls[p].pc = "opened"
    /\ state_file' =
           Some(Overlay(Written(inflight.calls[p].state)[1], state_file[1]))
    /\ inflight' =
           [Logged("write", p) EXCEPT !.calls[p] =
               [pc |-> "done", raised |-> "", rule |-> @.rule,
                state |-> @.state]]
    /\ last' = Call("add_rule: write", <<p>>, Return(None))
    /\ UNCHANGED <<cp_dir, checkpoints, files, clock, state, at_save,
                   claude_md>>
    /\ cp_before' = checkpoints

-----------------------------------------------------------------------------
(* Guard: rule testing *)

\* How a subprocess.run(..., timeout=...) call ends: exit status 0, another
\* exit status, TimeoutExpired, or any other exception (no shell, ...).
ProcessOutcomes == {"exit 0", "exit 1", "TimeoutExpired", "OSError"}

\* The spelling of the project's files, for glob patterns and paths.
Chars ==
    ("a.json" :> <<"a", ".", "j", "s", "o", "n">>) @@
    ("b.json" :> <<"b", ".", "j", "s", "o", "n">>)

\* fnmatch of one path component: `*` stands for any run of characters.
RECURSIVE fnmatch(_, _)
fnmatch(name, pattern) ==
    IF pattern = <<>>
    THEN name = <<>>
    ELSE IF Head(pattern) = "*"
    THEN \/ fnmatch(name, Tail(pattern))
         \/ name # <<>> /\ fnmatch(Tail(name), pattern)
    ELSE /\ name # <<>>
         /\ Head(name) = Head(pattern)
         /\ fnmatch(Tail(name), Tail(pattern))

\* list(project_root.glob(pattern)): pathlib refuses an empty pattern and
\* one that starts at the filesystem root.  fs holds the entries of the
\* project root other than .driftctl and .git.
glob(fs, pattern) ==
    IF pattern = <<>>
    THEN Raise("ValueError")
    ELSE IF Head(pattern) = "/"
    THEN Raise("NotImplementedError")
    ELSE Return({path \in DOMAIN fs :
                    fs[path] # None /\ fnmatch(Chars[path], pattern)})

\* (project_root / filepath).exists(): joining the empty path gives the
\* project root itself.
exists(fs, filepath) ==
    \/ filepath = <<>>
    \/ \E path \in DOMAIN fs : fs[path] # None /\ Chars[path] = filepath

CMD == <<"c", "m", "d", ":">>
NO_FILE == <<"n", "o", "-", "f", "i", "l", "e", ":">>
REQUIRE_FILE ==
    <<"r", "e", "q", "u", "i", "r", "e", "-", "f", "i", "l", "e", ":">>

\* Faulty variant of _check_single_rule: a cmd: rule passes whenever the
\* command ran to its end, whatever its exit status.
check_single_rule_ignores_status(fs, run, rule) ==
    IF startswith(rule, CMD)
    THEN LET cmd == strip(From(rule, 4))
         IN  IF run[cmd] \in {"exit 0", "exit 1"}
             THEN Return(<<TRUE, <<"cmd passed", cmd>>>>)
             ELSE IF run[cmd] = "TimeoutExpired"
             THEN Return(<<FALSE, <<"cmd timed out", cmd>>>>)
             ELSE Return(<<FALSE, <<"cmd error", run[cmd]>>>>)
    ELSE IF startswith(rule, NO_FILE)
    THEN LET pattern == strip(From(rule, 8))
             matches == glob(fs, pattern)
         IN  IF matches.raised # ""
             THEN matches
             ELSE IF matches.ret # {}
             THEN Return(<<FALSE, <<"Forbidden file(s) found", matches.ret>>>>)
             ELSE Return(<<TRUE, <<"No forbidden files matching", pattern>>>>)
    ELSE IF startswith(rule, REQUIRE_FILE)
    THEN LET filepath == strip(From(rule, 13))
         IN  IF exists(fs, filepath)
             THEN Return(<<TRUE, <<"Required file exists", filepath>>>>)
             ELSE Return(<<FALSE, <<"Required file missing", filepath>>>>)
    ELSE Return(<<TRUE, <<"Manual rule (not testable)", rule>>>>)

\* _check_single_rule(project_root, rule), where run[cmd] is how the shell
\* command cmd ends: Return(<<passed, message>>), or what it raises.
check_single_rule(fs, run, rule) ==
    IF startswith(rule, CMD)
    THEN LET cmd == strip(From(rule, 4))
         IN  IF run[cmd] = "exit 0"
             THEN Return(<<TRUE, <<"cmd passed", cmd>>>>)
             ELSE IF run[cmd] = "exit 1"
             THEN Return(<<FALSE, <<"cmd failed (exit 1)", cmd>>>>)
             ELSE IF run[cmd] = "TimeoutExpired"
             THEN Return(<<FALSE, <<"cmd timed out", cmd>>>>)
             ELSE Return(<<FALSE, <<"cmd error", run[cmd]>>>>)
    ELSE IF startswith(rule, NO_FILE)
    THEN LET pattern == strip(From(rule, 8))
             matches == glob(fs, pattern)
         IN  IF matches.raised # ""
             THEN matches
             ELSE IF matches.ret # {}
             THEN Return(<<FALSE, <<"Forbidden file(s) found", matches.ret>>>>)
             ELSE Return(<<TRUE, <<"No forbidden files matching", pattern>>>>)
    ELSE IF startswith(rule, REQUIRE_FILE)
    THEN LET filepath == strip(From(rule, 13))
         IN  IF exists(fs, filepath)
             THEN Return(<<TRUE, <<"Required file exists", filepath>>>>)
             ELSE Return(<<FALSE, <<"Required file missing", filepath>>>>)
    ELSE Return(<<TRUE, <<"Manual rule (not testable)", rule>>>>)

GuardResult(passed, failed) == [passed |-> passed, failed |-> failed]

\* GuardResult.ok
GuardOk(result) == Len(result.failed) = 0

\* Faulty variant of the loop of check_rules: it stops at the first rule
\* that fails.
RECURSIVE RulesLoop_short_circuit(_, _, _, _)
RulesLoop_short_circuit(result, fs, run, rules) ==
    IF rules = <<>>
    THEN Return(result)
    ELSE LET checked == check_single_rule(fs, run, Head(rules))
         IN  IF checked.raised # ""
             THEN checked
             ELSE IF checked.ret[1]
             THEN RulesLoop_short_circuit(
                      [result EXCEPT !.passed = Append(@, checked.ret[2])],
                      fs, run, Tail(rules))
             ELSE Return([result EXCEPT !.failed = Append(@, checked.ret[2])])

\* The loop of check_rules: an exception out of a rule ends it.
RECURSIVE RulesLoop(_, _, _, _)
RulesLoop(result, fs, run, rules) ==
    IF rules = <<>>
    THEN Return(result)
    ELSE LET checked == check_single_rule(fs, run, Head(rules))
         IN  IF checked.raised # ""
             THEN checked
             ELSE RulesLoop(
                      IF checked.ret[1]
                      THEN [result EXCEPT !.passed = Append(@, checked.ret[2])]
                      ELSE [result EXCEPT !.failed = Append(@, checked.ret[2])],
                      fs, run, Tail(rules))

\* list_rules(project_root)
list_rules(file) ==
    LET loaded == load_state(file)
    IN  IF loaded.raised # "" THEN loaded ELSE Return(loaded.ret.guardrails)

\* check_rules(project_root)
check_rules(file, fs, run) ==
    LET rules == list_rules(file)
    IN  IF rules.raised # ""
        THEN rules
        ELSE RulesLoop(GuardResult(<<>>, <<>>), fs, run, rules.ret)

\* The shell commands of the cmd: rules stored in `file`.
Commands(file) ==
    LET rules == list_rules(file)
    IN  IF rules.raised # ""
        THEN {}
        ELSE {strip(From(rules.ret[i], 4)) :
                 i \in {k \in 1..Len(rules.ret) : startswith(rules.ret[k], CMD)}}

CheckRules ==
    /\ \E run \in [Commands(state_file) -> ProcessOutcomes] :
          last' = Call("check_rules", <<run>>,
                       check_rules(state_file, files, run))
    /\ UNCHANGED <<state_file, cp_dir, checkpoints, files, clock, state,
                   at_save>>
    /\ cp_before' = checkpoints
    /\ UNCHANGED <<claude_md, inflight>>

-----------------------------------------------------------------------------
(* Checkpoints *)

\* The name under which .driftctl/checkpoints/<name>.yaml is the live
\* state document, .driftctl/state.yaml.
LiveAlias == <<".", ".", "/", "s", "t", "a", "t", "e">>

\* _checkpoint_file(project_root, name), read: the bytes of the file the
\* path leads to, if any.  The name is joined as it is: a name that walks
\* out of checkpoints/ leads to a file elsewhere, once the directory it
\* walks through exists.
checkpoint_file(file, dir, cps, name) ==
    IF name = LiveAlias
    THEN IF dir THEN file ELSE None
    ELSE IF name \in DOMAIN cps THEN cps[name] ELSE None

\* Faulty variant of save_checkpoint: the live document is not loaded
\* before it is copied.
save_checkpoint_unvalidated(file, name) ==
    LET stripped == strip(name)
    IN  IF stripped = <<>>
        THEN Raise("ValueError")
        ELSE IF Contains(stripped, "/") \/ Contains(stripped, "\\")
        THEN Raise("ValueError")
        ELSE IF file = None
        THEN Raise("FileNotFoundError")
        ELSE Return(stripped)

\* save_checkpoint(project_root, name): what it raises, or the stem written.
save_checkpoint(file, name) ==
    LET stripped == strip(name)
    IN  IF stripped = <<>>
        THEN Raise("ValueError")
        ELSE IF Contains(stripped, "/") \/ Contains(stripped, "\\")
        THEN Raise("ValueError")
        ELSE LET loaded == load_state(file)
             IN  IF loaded.raised # "" THEN loaded ELSE Return(stripped)

\* shutil.copy2(src, dest): dest gets the bytes of src.
copy2(src) == src

\* Faulty variant of save_checkpoint: a checkpoint file that exists is
\* left as it is.
SaveCheckpoint_keeps_existing(name) ==
    LET outcome == save_checkpoint(state_file, name)
    IN  /\ last' = Call("save_checkpoint", <<name>>, outcome)
        /\ IF outcome.raised = ""
           THEN /\ cp_dir' = TRUE
                /\ checkpoints' =
                      IF checkpoints[outcome.ret] # None
                      THEN checkpoints
                      ELSE [checkpoints EXCEPT
                               ![outcome.ret] = copy2(state_file)]
                /\ at_save' = [at_save EXCEPT ![outcome.ret] = state_file]
           ELSE UNCHANGED <<cp_dir, checkpoints, at_save>>
        /\ cp_before' = checkpoints
        /\ UNCHANGED <<claude_md, inflight>>
        /\ UNCHANGED <<state_file, files, clock, state>>

SaveCheckpoint(name) ==
    LET outcome == save_checkpoint(state_file, name)
    IN  /\ last' = Call("save_checkpoint", <<name>>, outcome)
        /\ IF outcome.raised = ""
           THEN /\ cp_dir' = TRUE
                /\ checkpoints' =
                      [checkpoints EXCEPT ![outcome.ret] = copy2(state_file)]
                /\ at_save' = [at_save EXCEPT ![outcome.ret] = state_file]
           ELSE UNCHANGED <<cp_dir, checkpoints, at_save>>
        /\ cp_before' = checkpoints
        /\ UNCHANGED <<claude_md, inflight>>
        /\ UNCHANGED <<state_file, files, clock, state>>

\* Faulty variant of rollback_checkpoint: the checkpoint is loaded and
\* written back through save_state, which stamps it anew.
rollback_restamped(file, dir, cps, name) ==
    LET src == checkpoint_file(file, dir, cps, strip(name))
    IN  IF src = None
        THEN [outcome |-> Raise("FileNotFoundError"), file |-> file]
        ELSE [outcome |-> Return(None),
              file |-> Written(Stamp(load_state(src).ret, clock))]

\* Faulty variant of rollback_checkpoint: the checkpoint is validated
\* before it is copied.
rollback_validated(file, dir, cps, name) ==
    LET src == checkpoint_file(file, dir, cps, strip(name))
    IN  IF src = None
        THEN [outcome |-> Raise("FileNotFoundError"), file |-> file]
        ELSE IF strip(name) = LiveAlias
        THEN [outcome |-> Raise("SameFileError"), file |-> file]
        ELSE IF load_state(src).raised # ""
        THEN [outcome |-> load_state(src), file |-> file]
        ELSE [outcome |-> Return(None), file |-> copy2(src)]

\* rollback_checkpoint(project_root, name): the outcome and the bytes of
\* state.yaml afterwards.  shutil.copy2 refuses to copy a file onto itself.
rollback_checkpoint(file, dir, cps, name) ==
    LET src == checkpoint_file(file, dir, cps, strip(name))
    IN  IF src = None
        THEN [outcome |-> Raise("FileNotFoundError"), file |-> file]
        ELSE IF strip(name) = LiveAlias
        THEN [outcome |-> Raise("SameFileError"), file |-> file]
        ELSE [outcome |-> Return(None), file |-> copy2(src)]

\* Faulty variant of rollback_checkpoint: the checkpoint file is moved
\* onto state.yaml instead of copied.
RollbackCheckpoint_moves(name) ==
    LET done == rollback_checkpoint(state_file, cp_dir, checkpoints, name)
    IN  /\ state_file' = done.file
        /\ last' = Call("rollback_checkpoint", <<name>>, done.outcome)
        /\ checkpoints' =
               IF done.outcome.raised = ""
               THEN [checkpoints EXCEPT ![strip(name)] = None]
               ELSE checkpoints
        /\ UNCHANGED <<cp_dir, files, clock, state, at_save>>
        /\ cp_before' = checkpoints
        /\ UNCHANGED <<claude_md, inflight>>

RollbackCheckpoint(name) ==
    LET done == rollback_checkpoint(state_file, cp_dir, checkpoints, name)
    IN  /\ state_file' = done.file
        /\ last' = Call("rollback_checkpoint", <<name>>, done.outcome)
        /\ UNCHANGED <<cp_dir, checkpoints, files, clock, state, at_save>>
        /\ cp_before' = checkpoints
        /\ UNCHANGED <<claude_md, inflight>>

\* delete_checkpoint(project_root, name): whether a file was there, and
\* state.yaml and checkpoints/ after path.unlink().
delete_checkpoint(file, dir, cps, name) ==
    LET stem == strip(name)
        found == checkpoint_file(file, dir, cps, stem) # None
    IN  [outcome |-> Return(found),
         file |-> IF found /\ stem = LiveAlias THEN None ELSE file,
         checkpoints |->
            IF found /\ stem \in DOMAIN cps
            THEN [cps EXCEPT ![stem] = None]
            ELSE cps]

DeleteCheckpoint(name) ==
    LET done == delete_checkpoint(state_file, cp_dir, checkpoints, name)
    IN  /\ state_file' = done.file
        /\ checkpoints' = done.checkpoints
        /\ at_save' = [n \in Stems |->
                          IF done.checkpoints[n] = None THEN None
                          ELSE at_save[n]]
        /\ cp_before' = checkpoints
        /\ UNCHANGED <<claude_md, inflight>>
        /\ last' = Call("delete_checkpoint", <<name>>, done.outcome)
        /\ UNCHANGED <<cp_dir, files, clock, state>>

\* sorted(...): ascending order of the stems the model stores.
Before(a, b) ==
    \/ \E i \in 1..Len(a) :
          /\ i <= Len(b)
          /\ SubSeq(a, 1, i - 1) = SubSeq(b, 1, i - 1)
          /\ CodePoint[a[i]] < CodePoint[b[i]]
    \/ Len(a) < Len(b) /\ a = SubSeq(b, 1, Len(a))

\* Faulty variant of sorted: descending order.
RECURSIVE sorted_descending(_)
sorted_descending(names) ==
    IF names = {}
    THEN <<>>
    ELSE LET greatest == CHOOSE a \in names :
                             \A b \in names \ {a} : Before(b, a)
         IN  <<greatest>> \o sorted_descending(names \ {greatest})

RECURSIVE sorted(_)
sorted(names) ==
    IF names = {}
    THEN <<>>
    ELSE LET least == CHOOSE a \in names :
                          \A b \in names \ {a} : Before(a, b)
         IN  <<least>> \o sorted(names \ {least})

\* list_checkpoints(project_root): no directory, no names; otherwise the
\* stems of the *.yaml files in it, sorted.
list_checkpoints(dir, cps) ==
    IF ~dir
    THEN Return(<<>>)
    ELSE Return(sorted({n \in DOMAIN cps : cps[n] # None}))

ListCheckpoints ==
    /\ last' = Call("list_checkpoints", <<>>,
                    list_checkpoints(cp_dir, checkpoints))
    /\ UNCHANGED <<state_file, cp_dir, checkpoints, files, clock, state,
                   at_save>>
    /\ cp_before' = checkpoints
    /\ UNCHANGED <<claude_md, inflight>>

-----------------------------------------------------------------------------
(* Drift detection *)

DriftResult(clean, drifted, missing, no_contract) ==
    [clean |-> clean, drifted |-> drifted, missing |-> missing,
     no_contract |-> no_contract]

\* Faulty variant of DriftResult.ok: an unverified component fails it too.
DriftOk_strict(result) ==
    /\ Len(result.drifted) = 0
    /\ Len(result.missing) = 0
    /\ Len(result.no_contract) = 0

\* DriftResult.ok
DriftOk(result) == Len(result.drifted) = 0 /\ Len(result.missing) = 0

\* Faulty variant of Classify: the `continue` after no_contract is missing.
Classify_no_continue(result, fs, name, comp) ==
    LET first == IF Falsy(comp.output_schema) \/ Falsy(comp.contract_hash)
                 THEN [result EXCEPT !.no_contract = Append(@, name)]
                 ELSE result
        current_hash ==
            IF Falsy(comp.output_schema)
            THEN None
            ELSE compute_contract_hash(fs, comp.output_schema[1])
    IN  IF current_hash = None
        THEN [first EXCEPT !.missing = Append(@, name)]
        ELSE IF current_hash = comp.contract_hash
        THEN [first EXCEPT !.clean = Append(@, name)]
        ELSE [first EXCEPT !.drifted = Append(@, name)]

\* Faulty variant of Classify: the file is looked for before the contract.
Classify_missing_first(result, fs, name, comp) ==
    IF Falsy(comp.output_schema)
    THEN [result EXCEPT !.no_contract = Append(@, name)]
    ELSE LET current_hash == compute_contract_hash(fs, comp.output_schema[1])
         IN  IF current_hash = None
             THEN [result EXCEPT !.missing = Append(@, name)]
             ELSE IF Falsy(comp.contract_hash)
             THEN [result EXCEPT !.no_contract = Append(@, name)]
             ELSE IF current_hash = comp.contract_hash
             THEN [result EXCEPT !.clean = Append(@, name)]
             ELSE [result EXCEPT !.drifted = Append(@, name)]

\* One pass of the loop of detect_drift: where `name` goes.
Classify(result, fs, name, comp) ==
    IF Falsy(comp.output_schema) \/ Falsy(comp.contract_hash)
    THEN [result EXCEPT !.no_contract = Append(@, name)]
    ELSE LET current_hash == compute_contract_hash(fs, comp.output_schema[1])
         IN  IF current_hash = None
             THEN [result EXCEPT !.missing = Append(@, name)]
             ELSE IF current_hash = comp.contract_hash
             THEN [result EXCEPT !.clean = Append(@, name)]
             ELSE [result EXCEPT !.drifted = Append(@, name)]

RECURSIVE DriftLoop(_, _, _)
DriftLoop(result, fs, items) ==
    IF items = <<>>
    THEN result
    ELSE DriftLoop(Classify(result, fs, Head(items)[1], Head(items)[2]),
                   fs, Tail(items))

\* detect_drift(project_root)
detect_drift(file, fs) ==
    LET loaded == load_state(file)
    IN  IF loaded.raised # ""
        THEN loaded
        ELSE Return(DriftLoop(DriftResult(<<>>, <<>>, <<>>, <<>>), fs,
                              loaded.ret.components))

DetectDrift ==
    /\ last' = Call("detect_drift", <<>>, detect_drift(state_file, files))
    /\ UNCHANGED <<state_file, cp_dir, checkpoints, files, clock, state,
                   at_save>>
    /\ cp_before' = checkpoints
    /\ UNCHANGED <<claude_md, inflight>>

-----------------------------------------------------------------------------
(* Validator *)

ValidationResult(passed, failed) == [passed |-> passed, failed |-> failed]

\* ValidationResult.ok
ValidationOk(result) == Len(result.failed) = 0

\* check_state_file: every exception of load_state becomes a failed check.
check_state_file(file) ==
    LET loaded == load_state(file)
    IN  IF loaded.raised = ""
        THEN Return(<<TRUE, <<"State file is valid">>>>)
        ELSE IF loaded.raised = "FileNotFoundError"
        THEN Return(<<FALSE, <<"State file not found">>>>)
        ELSE Return(<<FALSE, <<"State file is corrupt">>>>)

\* check_git, where git_dir is whether <root>/.git is a directory.
check_git(git_dir) ==
    IF git_dir
    THEN Return(<<TRUE, <<"Git repository detected">>>>)
    ELSE Return(<<FALSE, <<"Not a git repository">>>>)

\* check_test_command, where tests is how the test command ends.  Only
\* FileNotFoundError of load_state is caught.
check_test_command(file, tests) ==
    LET loaded == load_state(file)
    IN  IF loaded.raised = "FileNotFoundError"
        THEN Return(<<FALSE, <<"Cannot run tests - no state file">>>>)
        ELSE IF loaded.raised # ""
        THEN loaded
        ELSE IF loaded.ret.test_command = ""
        THEN Return(<<FALSE, <<"No test command configured">>>>)
        ELSE IF tests = "exit 0"
        THEN Return(<<TRUE, <<"Test suite passed">>>>)
        ELSE IF tests = "exit 1"
        THEN Return(<<FALSE, <<"Test suite failed (exit code 1)">>>>)
        ELSE IF tests = "TimeoutExpired"
        THEN Return(<<FALSE, <<"Test suite timed out (300s)">>>>)
        ELSE Return(<<FALSE, <<"Test suite error">>>>)

\* Faulty variant of the loop of check_contracts: a schema file that is
\* gone is counted as checked and not reported.
RECURSIVE ContractsLoop_ignores_missing(_, _, _)
ContractsLoop_ignores_missing(acc, fs, items) ==
    IF items = <<>>
    THEN acc
    ELSE LET name == Head(items)[1]
             comp == Head(items)[2]
             current_hash == compute_contract_hash(fs, comp.output_schema[1])
         IN  ContractsLoop_ignores_missing(
                 IF ~Falsy(comp.output_schema) /\ ~Falsy(comp.contract_hash)
                 THEN IF current_hash # None
                         /\ current_hash # comp.contract_hash
                      THEN <<acc[1] + 1,
                             Append(acc[2], <<name, "hash mismatch">>)>>
                      ELSE <<acc[1] + 1, acc[2]>>
                 ELSE acc,
                 fs, Tail(items))

\* The loop of check_contracts: <<checked, mismatches>>.
RECURSIVE ContractsLoop(_, _, _)
ContractsLoop(acc, fs, items) ==
    IF items = <<>>
    THEN acc
    ELSE LET name == Head(items)[1]
             comp == Head(items)[2]
             current_hash == compute_contract_hash(fs, comp.output_schema[1])
         IN  ContractsLoop(
                 IF ~Falsy(comp.output_schema) /\ ~Falsy(comp.contract_hash)
                 THEN IF current_hash = None
                      THEN <<acc[1] + 1,
                             Append(acc[2], <<name, "schema file missing">>)>>
                      ELSE IF current_hash # comp.contract_hash
                      THEN <<acc[1] + 1,
                             Append(acc[2], <<name, "hash mismatch">>)>>
                      ELSE <<acc[1] + 1, acc[2]>>
                 ELSE acc,
                 fs, Tail(items))

\* check_contracts: only FileNotFoundError of load_state is caught.
check_contracts(file, fs) ==
    LET loaded == load_state(file)
    IN  IF loaded.raised = "FileNotFoundError"
        THEN Return(<<FALSE, <<"Cannot check contracts - no state file">>>>)
        ELSE IF loaded.raised # ""
        THEN loaded
        ELSE LET done == ContractsLoop(<<0, <<>>>>, fs, loaded.ret.components)
             IN  IF done[2] # <<>>
                 THEN Return(<<FALSE, <<"Contract drift detected", done[2]>>>>)
                 ELSE IF done[1] = 0
                 THEN Return(<<TRUE, <<"No contracts to verify">>>>)
                 ELSE Return(<<TRUE, <<"contract(s) valid", done[1]>>>>)

\* The final loop of run_all_checks over the collected (passed, message).
RECURSIVE ChecksLoop(_, _)
ChecksLoop(result, checks) ==
    IF checks = <<>>
    THEN result
    ELSE ChecksLoop(
             IF Head(checks)[1]
             THEN [result EXCEPT !.passed = Append(@, Head(checks)[2])]
             ELSE [result EXCEPT !.failed = Append(@, Head(checks)[2])],
             Tail(checks))

\* run_all_checks with the test-command check appended whatever run_tests
\* says.
run_all_checks_always_tests(file, fs, git_dir, tests, run_tests) ==
    LET state_check == check_state_file(file)
        git_check == check_git(git_dir)
        test_check == check_test_command(file, tests)
        contract_check == check_contracts(file, fs)
    IN  IF test_check.raised # ""
        THEN test_check
        ELSE IF contract_check.raised # ""
        THEN contract_check
        ELSE Return(ChecksLoop(
                 ValidationResult(<<>>, <<>>),
                 <<state_check.ret, git_check.ret, test_check.ret,
                   contract_check.ret>>))

\* run_all_checks(project_root, run_tests=...): the checks are evaluated
\* while the list is built, so an exception out of one of them is the
\* outcome of the call.
run_all_checks(file, fs, git_dir, tests, run_tests) ==
    LET state_check == check_state_file(file)
        git_check == check_git(git_dir)
        test_check == check_test_command(file, tests)
        contract_check == check_contracts(file, fs)
    IN  IF run_tests /\ test_check.raised # ""
        THEN test_check
        ELSE IF contract_check.raised # ""
        THEN contract_check
        ELSE Return(ChecksLoop(
                 ValidationResult(<<>>, <<>>),
                 <<state_check.ret, git_check.ret>>
                     \o (IF run_tests THEN <<test_check.ret>> ELSE <<>>)
                     \o <<contract_check.ret>>))

RunAllChecks(git_dir, tests, run_tests) ==
    /\ last' = Call("run_all_checks", <<run_tests, git_dir, tests>>,
                    run_all_checks(state_file, files, git_dir, tests,
                                   run_tests))
    /\ UNCHANGED <<state_file, cp_dir, checkpoints, files, clock, state,
                   at_save>>
    /\ cp_before' = checkpoints
    /\ UNCHANGED <<claude_md, inflight>>

-----------------------------------------------------------------------------
(* Sync: the project brief CLAUDE.md *)

\* generate_claude_md(project_root) at instant `now`: the text, as what its
\* lines are built from.  The "Last synced" line carries the instant of
\* the call; the other lines depend on the state document only.
generate_claude_md(file, now) ==
    LET loaded == load_state(file)
        st == loaded.ret
    IN  IF loaded.raised # ""
        THEN loaded
        ELSE Return(
            [synced |-> now,
             project |-> st.project, agent |-> AgentType[st.agent],
             stack |-> st.stack, test_command |-> st.test_command,
             guardrails |-> st.guardrails,
             components |->
                [i \in 1..Len(st.components) |->
                    LET comp == st.components[i][2]
                    IN  <<st.components[i][1], ComponentStatus[comp.status],
                          IF Falsy(comp.depends_on)
                          THEN "-" ELSE comp.depends_on[1]>>],
             last_session |->
                IF st.sessions = <<>>
                THEN None
                ELSE Some(st.sessions[Len(st.sessions)])])

\* Variant of compute_diff that leaves the "Last synced" line out of the
\* comparison.
compute_diff_without_timestamp(existing, new) ==
    IF [existing EXCEPT !.synced = 0] = [new EXCEPT !.synced = 0]
    THEN None
    ELSE Some("diff")

\* compute_diff(existing, new): None when the two texts are equal once
\* stripped, every line compared, the "Last synced" line among them.  Both
\* texts end in the same newline, which is all strip() removes from them.
compute_diff(existing, new) ==
    IF existing = new
    THEN None
    ELSE Some("diff")

\* sync(project_root, force=..., preview=...) at instant `now`, where
\* `confirm` is what the user answers if asked: the outcome, what the
\* console was told, whether the user was asked, and CLAUDE.md afterwards.
sync(file, claude, now, force, preview, confirm) ==
    LET generated == generate_claude_md(file, now)
        content == generated.ret
        diff == compute_diff(claude[1], content)
    IN  IF generated.raised # ""
        THEN [outcome |-> generated, claude |-> claude]
        ELSE IF preview
        THEN [outcome |-> Return([content |-> content, said |-> "preview",
                                  asked |-> FALSE]),
              claude |-> claude]
        ELSE IF claude # None /\ ~force /\ diff = None
        THEN [outcome |-> Return([content |-> content,
                                  said |-> "already up to date",
                                  asked |-> FALSE]),
              claude |-> claude]
        ELSE IF claude # None /\ ~force /\ ~confirm
        THEN [outcome |-> Raise("SystemExit"), claude |-> claude]
        ELSE [outcome |-> Return([content |-> content, said |-> "synced",
                                  asked |-> claude # None /\ ~force]),
              claude |-> Some(content)]

Sync(force, preview, confirm) ==
    LET done == sync(state_file, claude_md, clock, force, preview, confirm)
    IN  /\ claude_md' = done.claude
        /\ last' = Call("sync", <<force, preview>>, done.outcome)
        /\ UNCHANGED <<state_file, cp_dir, checkpoints, files, clock, state,
                       at_save, inflight>>
        /\ cp_before' = checkpoints

-----------------------------------------------------------------------------
(* CLI: the exit status of a command, from how the function it calls ends *)

\* An exception no except clause of the command catches leaves the
\* process: the interpreter prints the traceback and exits with status 1.
Uncaught == 1

\* driftctl validate: `except Exception` around run_all_checks.
validate(call) ==
    IF call.raised # ""
    THEN 2
    ELSE IF ~ValidationOk(call.ret) THEN 1 ELSE 0

\* driftctl drift: `except FileNotFoundError` around detect_drift.
drift(call) ==
    IF call.raised = "FileNotFoundError"
    THEN 2
    ELSE IF call.raised # ""
    THEN Uncaught
    ELSE IF ~DriftOk(call.ret) THEN 1 ELSE 0

\* driftctl guard test: `except FileNotFoundError` around check_rules.
guard_test(call) ==
    IF call.raised = "FileNotFoundError"
    THEN 2
    ELSE IF call.raised # ""
    THEN Uncaught
    ELSE IF ~GuardOk(call.ret) THEN 1 ELSE 0

\* driftctl checkpoint save: FileNotFoundError and ValueError are caught.
save(call) ==
    IF call.raised \in {"FileNotFoundError", "ValueError"}
    THEN 2
    ELSE IF call.raised # "" THEN Uncaught ELSE 0

\* driftctl checkpoint rollback: FileNotFoundError is caught.
rollback(call) ==
    IF call.raised = "FileNotFoundError"
    THEN 2
    ELSE IF call.raised # "" THEN Uncaught ELSE 0

\* The commands modelled, by the function each one calls.
Commanded ==
    {"run_all_checks", "detect_drift", "check_rules", "save_checkpoint",
     "rollback_checkpoint"}

\* The exit status of the command that made `call`.
ExitStatus(call) ==
    CASE call.op = "run_all_checks" -> validate(call)
      [] call.op = "detect_drift" -> drift(call)
      [] call.op = "check_rules" -> guard_test(call)
      [] call.op = "save_checkpoint" -> save(call)
      [] call.op = "rollback_checkpoint" -> rollback(call)

-----------------------------------------------------------------------------
(* Specifications *)

\* The guardrail list under add_rule / remove_rule.
NextGuard ==
    \/ Tick
    \/ InitState("proj", "OTHER", "python", "pytest")
    \/ \E rule \in RuleArgs : AddRule(rule)
    \/ \E rule \in RuleArgs : RemoveRule(rule)

SpecGuard == Init /\ [][NextGuard]_vars

\* Components registered against schema files that are written, rewritten
\* and removed, and the drift detector run at any point.
SchemaArgs == {None, Some(""), Some("a.json")}

NextDrift ==
    \/ InitState("proj", "OTHER", "python", "pytest")
    \/ \E name \in ComponentNames, output_schema \in SchemaArgs :
          AddComponent(name, "PENDING", output_schema, None)
    \/ SaveState
    \/ \E bytes \in Contents : WriteFile("a.json", bytes)
    \/ DeleteFile("a.json")
    \/ DetectDrift

SpecDrift == Init /\ [][NextDrift]_vars

\* One component and its schema file: registration, every operation that
\* reads or rewrites the state document, and the file changing under them.
RuleOnce == <<"a">>

NextContract ==
    \/ InitState("proj", "OTHER", "python", "pytest")
    \/ AddComponent("api", "PENDING", Some("a.json"), None)
    \/ AddSession("work", None)
    \/ SaveState
    \/ AddRule(RuleOnce)
    \/ RemoveRule(RuleOnce)
    \/ \E bytes \in {0, 1} : WriteFile("a.json", bytes)
    \/ DeleteFile("a.json")
    \/ DetectDrift
    \/ CheckRules
    \/ \E run_tests \in BOOLEAN : RunAllChecks(TRUE, "exit 0", run_tests)
    \/ SaveCheckpoint(<<"v", "1">>)

SpecContract == Init /\ [][NextContract]_vars

\* A checkpoint taken, the document mutated through every writer, and the
\* checkpoint rolled back to, under names that differ in padding only.
CheckpointOnce == {<<"v", "1">>, <<" ", "v", "1">>}

NextCheckpoint ==
    \/ Tick
    \/ InitState("proj", "OTHER", "python", "pytest")
    \/ AddComponent("api", "PENDING", None, None)
    \/ AddSession("work", None)
    \/ SaveState
    \/ AddRule(RuleOnce)
    \/ RemoveRule(RuleOnce)
    \/ \E name \in CheckpointOnce : SaveCheckpoint(name)
    \/ \E name \in CheckpointOnce : RollbackCheckpoint(name)

SpecCheckpoint == Init /\ [][NextCheckpoint]_vars

\* Saving and loading, from every valid ProjectState a caller can hold:
\* every agent, components of every status with and without schema, hash
\* and dependency, sessions with and without commits, guardrails.
ComponentInputs ==
    {<<>>} \cup
    {<<<<"api", Component(status, output_schema, contract_hash, depends_on)>>>> :
        status \in DOMAIN ComponentStatus, output_schema \in SchemaArgs,
        contract_hash \in {None, Some(md5(0))},
        depends_on \in {None, Some("db")}}

SessionInputs ==
    {<<>>} \cup {<<Session(0, "did work", commits)>> : commits \in Commits}

GuardrailInputs == {<<>>, <<RuleOnce>>}

StateInputs ==
    {[ProjectState(project, agent, "python", test_command, 0)
        EXCEPT !.components = components, !.sessions = sessions,
               !.guardrails = guardrails] :
        project \in Projects, agent \in DOMAIN AgentType,
        test_command \in {"", "pytest"}, components \in ComponentInputs,
        sessions \in SessionInputs, guardrails \in GuardrailInputs}

InitLoaded ==
    /\ state \in {Some(st) : st \in StateInputs}
    /\ state_file = None
    /\ cp_dir = FALSE
    /\ checkpoints = [n \in Stems |-> None]
    /\ files = [p \in Paths |-> None]
    /\ clock = 0
    /\ last = [op |-> "", args |-> <<>>, raised |-> "", ret |-> None]
    /\ at_save = [n \in Stems |-> None]
    /\ cp_before = [n \in Stems |-> None]
    /\ claude_md = None
    /\ inflight = NoneInFlight

NextState ==
    \/ Tick
    \/ SaveState
    \/ LoadState

SpecState == InitLoaded /\ [][NextState]_vars

\* Rules of every kind stored in any order and tested, with the file they
\* look at present or absent and the command ending in every way.
CmdRule == CMD \o <<"x">>
NoFileRule == NO_FILE \o <<"a", "*">>
RequireRule == REQUIRE_FILE \o Chars["a.json"]
ManualRule == <<"c", "m", "d">>
EmptyPatternRule == NO_FILE
CheckedRules ==
    {CmdRule, NoFileRule, RequireRule, ManualRule, EmptyPatternRule}

NextRules ==
    \/ InitState("proj", "OTHER", "python", "pytest")
    \/ \E rule \in CheckedRules : AddRule(rule)
    \/ \E rule \in CheckedRules : RemoveRule(rule)
    \/ WriteFile("a.json", 0)
    \/ DeleteFile("a.json")
    \/ CheckRules

SpecRules == Init /\ [][NextRules]_vars

\* Checkpoints saved, listed, rolled back to and deleted under good and bad
\* names, with the live document and the checkpoint files absent, valid or
\* edited into invalid documents.
SlotArgs ==
    {<<" ">>, <<"v", "1">>, <<"v", "1", " ">>, <<"V", "2">>,
     <<"a", "/", "b">>, <<"a", "\\", "b">>}

NextSlots ==
    \/ InitState("proj", "OTHER", "python", "pytest")
    \/ AddRule(RuleOnce)
    \/ CorruptState
    \/ \E name \in SlotArgs : SaveCheckpoint(name)
    \/ \E stem \in Stems : CorruptCheckpoint(stem)
    \/ \E name \in SlotArgs \cup {LiveAlias} : RollbackCheckpoint(name)
    \/ \E name \in SlotArgs \cup {LiveAlias} : DeleteCheckpoint(name)
    \/ ListCheckpoints

SpecSlots == Init /\ [][NextSlots]_vars

\* The validator run on a project whose state document is absent, valid
\* or edited into an invalid one, with and without a git directory, a test
\* command and a contract, the test command ending in every way.
NextValidate ==
    \/ \E test_command \in {"", "pytest"} :
          InitState("proj", "OTHER", "python", test_command)
    \/ CorruptState
    \/ AddComponent("api", "PENDING", Some("a.json"), None)
    \/ SaveState
    \/ \E bytes \in {0, 1} : WriteFile("a.json", bytes)
    \/ DeleteFile("a.json")
    \/ \E git_dir \in BOOLEAN, tests \in ProcessOutcomes,
          run_tests \in BOOLEAN :
          RunAllChecks(git_dir, tests, run_tests)

SpecValidate == Init /\ [][NextValidate]_vars

\* load_state on a state document that is absent, written by the program,
\* edited into one whose agent or component status is outside its
\* enumeration, or removed again.
NextLoad ==
    \/ \E agent \in DOMAIN AgentType :
          InitState("proj", agent, "python", "pytest")
    \/ \E name \in ComponentNames, status \in DOMAIN ComponentStatus :
          AddComponent(name, status, None, None)
    \/ SaveState
    \/ CorruptState
    \/ CorruptStatus
    \/ RemoveState
    \/ LoadState

SpecLoad == Init /\ [][NextLoad]_vars

\* init_state run over whatever the project holds: no document, one with
\* components, sessions and guardrails, one edited into an invalid one,
\* with and without a checkpoint.
NextInit ==
    \/ \E project \in Projects :
          InitState(project, "CURSOR", "python", "pytest")
    \/ AddComponent("api", "PENDING", None, None)
    \/ AddSession("work", None)
    \/ SaveState
    \/ AddRule(RuleOnce)
    \/ CorruptState
    \/ SaveCheckpoint(<<"v", "1">>)

SpecInit == Init /\ [][NextInit]_vars

\* Sessions appended one after another, on different days, to a state that
\* is also saved, reloaded and given components and rules in between.
SessionLimit == MaxSessions + 1

NextSessions ==
    \/ Tick
    \/ InitState("proj", "OTHER", "python", "pytest")
    \/ LoadState
    \/ \E summary \in {"work", "did work"} :
          AddSessionWithin(SessionLimit, summary, None)
    \/ AddComponent("api", "PENDING", None, None)
    \/ SaveState
    \/ AddRule(RuleOnce)
    \/ RemoveRule(RuleOnce)

SpecSessions == Init /\ [][NextSessions]_vars

\* CLAUDE.md regenerated at any instant, forced or not, the user answering
\* either way, over a state document that is absent, unchanged or changed.
NextSync ==
    \/ Tick
    \/ InitState("proj", "OTHER", "python", "pytest")
    \/ AddRule(RuleOnce)
    \/ RemoveRule(RuleOnce)
    \/ \E force \in BOOLEAN, preview \in BOOLEAN, confirm \in BOOLEAN :
          Sync(force, preview, confirm)

SpecSync == Init /\ [][NextSync]_vars

\* The commands run on a project whose state document is absent, valid or
\* edited into an invalid one, with checks that pass and checks that fail,
\* and with checkpoint names that are valid, invalid, known and unknown.
NextCli ==
    \/ InitState("proj", "OTHER", "python", "pytest")
    \/ CorruptState
    \/ AddComponent("api", "PENDING", Some("a.json"), None)
    \/ SaveState
    \/ \E bytes \in {0, 1} : WriteFile("a.json", bytes)
    \/ AddRule(RequireRule)
    \/ \E git_dir \in BOOLEAN, run_tests \in BOOLEAN :
          RunAllChecks(git_dir, "exit 0", run_tests)
    \/ DetectDrift
    \/ CheckRules
    \/ \E name \in {<<"v", "1">>, <<"a", "/", "b">>, <<" ">>} :
          SaveCheckpoint(name)
    \/ \E name \in {<<"v", "1">>, <<"v", "2">>, <<"a", "/", "b">>} :
          RollbackCheckpoint(name)

SpecCli == Init /\ [][NextCli]_vars

\* Two invocations of add_rule on an initialised project, their loads,
\* opens and writes in every order, with rules of equal and of different
\* length.
RacingRules == {<<"a">>, <<"b">>, <<"c", "c">>}

InitRace ==
    /\ state_file \in
           {Written([ProjectState("proj", "OTHER", "python", "pytest", 0)
                        EXCEPT !.guardrails = guardrails]) :
               guardrails \in {<<>>, <<RuleOnce>>}}
    /\ cp_dir = FALSE
    /\ checkpoints = [n \in Stems |-> None]
    /\ files = [p \in Paths |-> None]
    /\ clock = 0
    /\ state = None
    /\ last = [op |-> "", args |-> <<>>, raised |-> "", ret |-> None]
    /\ at_save = [n \in Stems |-> None]
    /\ cp_before = [n \in Stems |-> None]
    /\ claude_md = None
    /\ inflight = NoneInFlight

NextRace ==
    \/ Tick
    \/ \E p \in Invocations, rule \in RacingRules : BeginAddRule(p, rule)
    \/ \E p \in Invocations : OpenState(p)
    \/ \E p \in Invocations : WriteState(p)

SpecRace == InitRace /\ [][NextRace]_vars

\* The drift detector and the validator run on the same documents and
\* schema files: components with and without schema and hash, files
\* written, rewritten and removed.
NextAgree ==
    \/ InitState("proj", "OTHER", "python", "pytest")
    \/ \E name \in ComponentNames, output_schema \in SchemaArgs :
          AddComponent(name, "PENDING", output_schema, None)
    \/ SaveState
    \/ \E bytes \in Contents : WriteFile("a.json", bytes)
    \/ DeleteFile("a.json")
    \/ DetectDrift
    \/ RunAllChecks(TRUE, "exit 0", FALSE)

SpecAgree == Init /\ [][NextAgree]_vars

\* Two checkpoints of a document that keeps being rewritten by every writer
\* of state.yaml, rolled back to and deleted in any order.
IsolationArgs == {<<"v", "1">>, <<"V", "2">>}

NextIsolation ==
    \/ Tick
    \/ InitState("proj", "OTHER", "python", "pytest")
    \/ SaveState
    \/ AddRule(RuleOnce)
    \/ RemoveRule(RuleOnce)
    \/ \E name \in IsolationArgs : SaveCheckpoint(name)
    \/ \E name \in IsolationArgs \cup {LiveAlias} : RollbackCheckpoint(name)
    \/ \E name \in IsolationArgs \cup {LiveAlias} : DeleteCheckpoint(name)

SpecIsolation == Init /\ [][NextIsolation]_vars

-----------------------------------------------------------------------------
(* What the properties read *)

\* The guardrails list as persisted in `file`.
Guardrails(file) == yaml_safe_load(file[1]).guardrails

\* The last_updated stamp persisted in `file`.
LastUpdated(file) == yaml_safe_load(file[1]).last_updated

Loads(file) == load_state(file).raised = ""

\* The components persisted in `file`, as load_state returns them.
Components(file) == load_state(file).ret.components

\* Whether the file at `path` exists.
IsFile(fs, path) == path \in DOMAIN fs /\ fs[path] # None

\* The four buckets of a DriftResult, one after the other.
AllBuckets(result) ==
    result.clean \o result.drifted \o result.missing \o result.no_contract

-----------------------------------------------------------------------------
(* Drift detection *)

\* C3: detect_drift puts every component name of the document in exactly one
\* of clean, drifted, missing, no_contract, and nothing else in any of them.
C3_DriftPartition ==
    (last.op = "detect_drift" /\ last.raised = "") =>
        LET all == AllBuckets(last.ret)
        IN  /\ NoDuplicates(all)
            /\ {all[i] : i \in 1..Len(all)} = Keys(Components(state_file))

\* C3 witness: a detection over two components that fall in different
\* buckets, one of them drifted.
C3_Witness ==
    /\ last.op = "detect_drift" /\ last.raised = ""
    /\ Len(AllBuckets(last.ret)) = 2
    /\ Len(last.ret.drifted) = 1
    /\ Len(last.ret.no_contract) = 1

\* C4: a component is no_contract iff it has no output_schema or no
\* contract_hash, whether or not the schema file exists; otherwise missing
\* iff the file does not exist; otherwise clean iff the digest of the file
\* equals the stored contract_hash; otherwise drifted.
C4_Classification ==
    (last.op = "detect_drift" /\ last.raised = "") =>
        LET comps == Components(state_file)
        IN  \A i \in 1..Len(comps) :
            LET name == comps[i][1]
                comp == comps[i][2]
                unset == comp.output_schema = None \/ comp.contract_hash = None
                absent == ~IsFile(files, comp.output_schema[1])
                same == md5(files[comp.output_schema[1]][1])
                            = comp.contract_hash[1]
            IN  /\ Contains(last.ret.no_contract, name) <=> unset
                /\ ~unset =>
                      /\ Contains(last.ret.missing, name) <=> absent
                      /\ ~absent =>
                            /\ Contains(last.ret.clean, name) <=> same
                            /\ Contains(last.ret.drifted, name) <=> ~same

\* C4 witness: a detection that reports no_contract for a component whose
\* output_schema is set, whose contract_hash is not, and whose file is absent.
C4_Witness ==
    /\ last.op = "detect_drift" /\ last.raised = ""
    /\ ~IsFile(files, "a.json")
    /\ LET comps == Components(state_file)
       IN  \E i \in 1..Len(comps) :
              /\ comps[i][2].output_schema = Some("a.json")
              /\ comps[i][2].contract_hash = None
              /\ Contains(last.ret.no_contract, comps[i][1])

\* C5: the result is ok iff no component is drifted or missing; components
\* in no_contract do not make it fail, and a component without output_schema
\* is never drifted or missing.
C5_DriftOk ==
    (last.op = "detect_drift" /\ last.raised = "") =>
        LET comps == Components(state_file)
        IN  /\ DriftOk(last.ret) <=>
                  \A name \in Keys(comps) :
                      /\ ~Contains(last.ret.drifted, name)
                      /\ ~Contains(last.ret.missing, name)
            /\ \A i \in 1..Len(comps) :
                  comps[i][2].output_schema = None =>
                      /\ ~Contains(last.ret.drifted, comps[i][1])
                      /\ ~Contains(last.ret.missing, comps[i][1])

\* C5 witness: an ok result with one component verified clean and one left
\* unverified for want of an output_schema.
C5_Witness ==
    /\ last.op = "detect_drift" /\ last.raised = ""
    /\ DriftOk(last.ret)
    /\ Len(last.ret.clean) = 1
    /\ LET comps == Components(state_file)
       IN  \E i \in 1..Len(comps) :
              /\ comps[i][2].output_schema = None
              /\ Contains(last.ret.no_contract, comps[i][1])

\* Whether detect_drift, run on `file` and `fs`, reports `name` in `bucket`.
Reported(file, fs, bucket, name) ==
    LET detected == detect_drift(file, fs)
    IN  detected.raised = "" /\ Contains(detected.ret[bucket], name)

\* Whether `file` holds a component `name` whose output_schema is `path`.
HasSchema(file, name, path) ==
    LET loaded == load_state(file)
    IN  /\ loaded.raised = ""
        /\ HasKey(loaded.ret.components, name)
        /\ Get(loaded.ret.components, name).output_schema = Some(path)

\* The parts of the drift lifecycle that do not depend on which bytes the
\* file is overwritten with.
\* (a) add_component with an existing schema file: saved as it is, the
\*     component is reported clean.
Registered ==
    (/\ last'.op = "add_component"
     /\ last'.args[3] # None
     /\ IsFile(files, last'.args[3][1]))
    => Reported(save_state(state'[1], clock').file, files', "clean",
                last'.args[1])

\* (b) a clean component stays clean over any step that rewrites the
\*     document but changes neither the files nor its persisted record.
StaysClean ==
    \A name \in ComponentNames :
        (/\ state_file' # state_file
         /\ files' = files
         /\ Reported(state_file, files, "clean", name)
         /\ Loads(state_file')
         /\ HasKey(Components(state_file'), name)
         /\ Get(Components(state_file'), name)
               = Get(Components(state_file), name))
        => Reported(state_file', files', "clean", name)

\* (c) deleting the schema file of a clean or drifted component: missing.
Deleted ==
    \A name \in ComponentNames :
        (/\ last'.op = "delete_file"
         /\ HasSchema(state_file, name, last'.args[1])
         /\ \/ Reported(state_file, files, "clean", name)
            \/ Reported(state_file, files, "drifted", name))
        => Reported(state_file', files', "missing", name)

\* A step that overwrites the existing schema file of the clean component
\* `name` with different bytes.
Overwritten(name) ==
    /\ last'.op = "write_file"
    /\ HasSchema(state_file, name, last'.args[1])
    /\ IsFile(files, last'.args[1])
    /\ files'[last'.args[1]] # files[last'.args[1]]
    /\ Reported(state_file, files, "clean", name)

\* C7 as stated: registered with its schema file present and saved, a
\* component is reported clean while the file is unchanged, drifted once the
\* file is overwritten with different bytes, missing once it is deleted.
C7_LifecycleAnyBytes ==
    [][/\ Registered
       /\ StaysClean
       /\ Deleted
       /\ \A name \in ComponentNames :
             Overwritten(name)
             => Reported(state_file', files', "drifted", name)]_vars

\* C7 amended: as above, but an overwrite makes the component drifted iff
\* the new bytes have another MD5 digest than the recorded contract_hash;
\* different bytes with the same digest leave it clean.
C7_Lifecycle ==
    [][/\ Registered
       /\ StaysClean
       /\ Deleted
       /\ \A name \in ComponentNames :
             Overwritten(name)
             => IF md5(files'[last'.args[1]][1]) = md5(files[last'.args[1]][1])
                THEN Reported(state_file', files', "clean", name)
                ELSE Reported(state_file', files', "drifted", name)]_vars

\* C7 witness: the schema file of a registered and saved component has just
\* been overwritten, and the component is now reported drifted.
C7_Witness ==
    /\ last.op = "write_file"
    /\ HasSchema(state_file, "api", last.args[1])
    /\ Reported(state_file, files, "drifted", "api")

-----------------------------------------------------------------------------
(* Guardrail list *)

\* C8: whatever add_rule and remove_rule calls are made, with whatever
\* arguments, the persisted guardrails list holds no entry twice.
C8_NoDuplicateGuardrails ==
    state_file # None => NoDuplicates(Guardrails(state_file))

\* C8 witness: add_rule has just been called with a rule that was already
\* stored (nothing was written at this instant) in a list of two or more.
C8_Witness ==
    /\ last.op = "add_rule" /\ last.raised = ""
    /\ Len(last.ret) >= 2
    /\ Contains(last.ret, strip(last.args[1]))
    /\ LastUpdated(state_file) < clock

\* C9: rules are trimmed before they are stored and before they are
\* compared: every stored entry is free of surrounding whitespace and
\* non-empty; add_rule of a padded variant of a stored rule leaves the list
\* as it is; remove_rule of a padded variant of a stored rule removes it.
C9_Trimmed ==
    /\ [](state_file # None =>
            \A i \in 1..Len(Guardrails(state_file)) :
                /\ Guardrails(state_file)[i] # <<>>
                /\ Head(Guardrails(state_file)[i]) \notin Whitespace
                /\ Guardrails(state_file)[i][Len(Guardrails(state_file)[i])]
                      \notin Whitespace)
    /\ [][/\ (/\ last'.op = "add_rule"
              /\ Loads(state_file)
              /\ Contains(Guardrails(state_file), strip(last'.args[1])))
             => Guardrails(state_file') = Guardrails(state_file)
          /\ (/\ last'.op = "remove_rule"
              /\ Loads(state_file)
              /\ Contains(Guardrails(state_file), strip(last'.args[1])))
             => /\ ~Contains(Guardrails(state_file'), strip(last'.args[1]))
                /\ Len(Guardrails(state_file')) =
                      Len(Guardrails(state_file)) - 1]_vars

\* C9 witness: add_rule has just been called with a rule padded on both
\* sides whose trimmed form was already stored, and nothing was written.
C9_Witness ==
    /\ last.op = "add_rule" /\ last.raised = ""
    /\ Len(last.args[1]) >= 3
    /\ Head(last.args[1]) \in Whitespace
    /\ last.args[1][Len(last.args[1])] \in Whitespace
    /\ Contains(last.ret, strip(last.args[1]))
    /\ LastUpdated(state_file) < clock

\* C10: add_rule of a stored rule and remove_rule of a rule that is not
\* stored raise nothing, return the current list and leave state.yaml as it
\* is, last_updated included.
C10_NoOpCalls ==
    [][/\ (/\ last'.op = "add_rule"
           /\ Loads(state_file)
           /\ Contains(Guardrails(state_file), strip(last'.args[1])))
          => /\ last'.raised = ""
             /\ last'.ret = Guardrails(state_file)
             /\ state_file' = state_file
       /\ (/\ last'.op = "remove_rule"
           /\ Loads(state_file)
           /\ ~Contains(Guardrails(state_file), strip(last'.args[1])))
          => /\ last'.raised = ""
             /\ last'.ret = Guardrails(state_file)
             /\ state_file' = state_file]_vars

\* C10 witness: remove_rule has just been called for a rule that is not
\* stored, on a non-empty list written at an earlier instant.
C10_Witness ==
    /\ last.op = "remove_rule" /\ last.raised = ""
    /\ strip(last.args[1]) # <<>>
    /\ ~Contains(last.ret, strip(last.args[1]))
    /\ Len(last.ret) >= 1
    /\ LastUpdated(state_file) < clock

-----------------------------------------------------------------------------
(* Contract hashes *)

\* The contract_hash recorded for each component, in order.
Hashes(components) ==
    [i \in 1..Len(components) |->
        <<components[i][1], components[i][2].contract_hash>>]

\* The hashes held by the caller's object, and those in the document.
HeldHashes(st) == IF st = None THEN <<>> ELSE Hashes(st[1].components)
StoredHashes(file) ==
    LET loaded == load_state(file)
    IN  IF loaded.raised = "" THEN Hashes(loaded.ret.components) ELSE <<>>

\* The hash of the file at output_schema now: unset for no schema, an
\* empty schema or an absent file.
HashNow(fs, output_schema) ==
    IF output_schema \in {None, Some("")} \/ ~IsFile(fs, output_schema[1])
    THEN None
    ELSE Some(md5(fs[output_schema[1]][1]))

\* C6: a component's contract_hash is set only by add_component, to the hash
\* of the file at output_schema at that moment (unset when the file is
\* absent), the other components' hashes staying as they were; save_state
\* writes the hashes of the object it is given as they are; add_session
\* leaves them alone; and add_rule, remove_rule, detect_drift, check_rules,
\* run_all_checks and save_checkpoint change no hash, in the caller's
\* object or in the document, whatever the schema file holds by then.
C6_ContractHashSetOnce ==
    [][ /\ last'.op = "add_component" =>
             LET name == last'.args[1]
                 before == state[1].components
                 after == state'[1].components
             IN  /\ Get(after, name).contract_hash
                        = HashNow(files, last'.args[3])
                 /\ \A other \in Keys(before) \ {name} :
                        Get(after, other).contract_hash
                            = Get(before, other).contract_hash
                 /\ StoredHashes(state_file') = StoredHashes(state_file)
        /\ last'.op = "save_state" =>
             /\ StoredHashes(state_file') = HeldHashes(state)
             /\ HeldHashes(state') = HeldHashes(state)
        /\ last'.op \in {"add_session", "add_rule", "remove_rule",
                         "detect_drift", "check_rules", "run_all_checks",
                         "save_checkpoint"} =>
             /\ StoredHashes(state_file') = StoredHashes(state_file)
             /\ HeldHashes(state') = HeldHashes(state)
      ]_vars

\* A rule has just been added to a document whose component api carries
\* the hash of a.json as it was at registration, the file holding other
\* bytes of another digest by now.
C6_Witness ==
    /\ last.op = "add_rule"
    /\ last.raised = ""
    /\ Contains(Guardrails(state_file), RuleOnce)
    /\ IsFile(files, "a.json")
    /\ \E i \in 1..Len(StoredHashes(state_file)) :
          LET hash == StoredHashes(state_file)[i][2]
          IN  hash # None /\ hash # HashNow(files, Some("a.json"))

-----------------------------------------------------------------------------
(* Checkpoint and rollback *)

\* at_save[n] is the state document as save_checkpoint last copied it under
\* the name n.

\* C1: whatever was saved through save_state, add_rule and remove_rule since
\* save_checkpoint(n), rollback_checkpoint(n) succeeds and leaves the live
\* state document byte-identical to the document at the moment of
\* save_checkpoint(n), which load_state reads back as it did then.
C1_RollbackRestores ==
    (/\ last.op = "rollback_checkpoint"
     /\ at_save[strip(last.args[1])] # None)
    => /\ last.raised = ""
       /\ state_file = at_save[strip(last.args[1])]
       /\ load_state(state_file).raised = ""

\* A rollback has just restored a checkpoint whose document differs from
\* what the caller's object, mutated and saved since, holds: in project
\* content and in the time stamp.
C1_Witness ==
    /\ last.op = "rollback_checkpoint"
    /\ last.raised = ""
    /\ state # None
    /\ Loads(state_file)
    /\ Components(state_file) = <<>>
    /\ state[1].components # <<>>
    /\ state[1].sessions # <<>>
    /\ LastUpdated(state_file) < state[1].last_updated

-----------------------------------------------------------------------------
(* Save and load *)

\* C2: load_state after save_state(s) succeeds and returns a state equal
\* to s, as it was handed to save_state, in version, project, agent, stack,
\* test_command, components, sessions and guardrails; only last_updated
\* may differ.
C2_RoundTrip ==
    [][last'.op = "save_state" =>
          LET loaded == load_state(state_file')
          IN  /\ loaded.raised = ""
              /\ [loaded.ret EXCEPT !.last_updated = state[1].last_updated]
                     = state[1]
      ]_vars

\* A state with a non-default agent, a completed component with hash and
\* dependency, a session with a commit and a guardrail has just been saved,
\* at a later instant than its last_updated said, and loads as it is.
C2_Witness ==
    /\ last.op = "save_state"
    /\ state[1].project = "modified"
    /\ state[1].agent = "CURSOR"
    /\ \E i \in 1..Len(state[1].components) :
          LET comp == state[1].components[i][2]
          IN  /\ comp.status = "COMPLETE"
              /\ comp.contract_hash # None
              /\ comp.depends_on # None
    /\ \E i \in 1..Len(state[1].sessions) :
          state[1].sessions[i].commits # <<>>
    /\ state[1].guardrails # <<>>
    /\ state[1].last_updated > 0
    /\ load_state(state_file).ret = state[1]

-----------------------------------------------------------------------------
(* Rule testing *)

\* The messages of the (passed, message) pairs in `evals`, in order.
Messages(evals) == [i \in 1..Len(evals) |-> evals[i][2]]

\* C11: when check_rules returns, each stored rule has been evaluated on
\* its own: passed holds, in order, the messages of the rules that pass and
\* failed those of the rules that fail, so that the two together hold one
\* message per stored rule and a failing rule hides no later one; ok is
\* true iff failed is empty.
C11_EveryRuleEvaluated ==
    (last.op = "check_rules" /\ last.raised = "") =>
        LET rules == Guardrails(state_file)
            evals == [i \in 1..Len(rules) |->
                         check_single_rule(files, last.args[1], rules[i]).ret]
        IN  /\ last.ret.passed = Messages(SelectSeq(evals, LAMBDA e : e[1]))
            /\ last.ret.failed = Messages(SelectSeq(evals, LAMBDA e : ~e[1]))
            /\ Len(last.ret.passed) + Len(last.ret.failed) = Len(rules)
            /\ GuardOk(last.ret) <=> last.ret.failed = <<>>

\* check_rules has returned a result in which a rule that fails is
\* followed by a rule that passes.
C11_Witness ==
    /\ last.op = "check_rules"
    /\ last.raised = ""
    /\ Len(Guardrails(state_file)) >= 3
    /\ Guardrails(state_file)[1] = RequireRule
    /\ ~IsFile(files, "a.json")
    /\ last.ret.failed # <<>>
    /\ Len(last.ret.passed) >= 2
    /\ ~GuardOk(last.ret)

\* C12: a rule is routed by its literal prefix alone, whatever else is
\* stored.  In any result of check_rules: the rule cmd:x passes iff the
\* command exits with status 0; no-file:a* passes iff no file of the
\* project root matches, and when it fails its message lists the matching
\* paths; require-file:a.json passes iff that file exists; and the rule
\* `cmd`, which has no prefix, passes as a manual rule.
C12_RoutedByPrefix ==
    (last.op = "check_rules" /\ last.raised = "") =>
        LET rules == Guardrails(state_file)
            run == last.args[1]
            passed == last.ret.passed
            failed == last.ret.failed
            present == IsFile(files, "a.json")
        IN  /\ Contains(rules, CmdRule) =>
                 /\ Contains(passed, <<"cmd passed", <<"x">>>>)
                        <=> run[<<"x">>] = "exit 0"
                 /\ (\E i \in 1..Len(failed) :
                         failed[i][1] \in {"cmd failed (exit 1)",
                                           "cmd timed out", "cmd error"})
                        <=> run[<<"x">>] # "exit 0"
            /\ Contains(rules, NoFileRule) =>
                 /\ Contains(passed,
                             <<"No forbidden files matching", <<"a", "*">>>>)
                        <=> ~present
                 /\ Contains(failed, <<"Forbidden file(s) found", {"a.json"}>>)
                        <=> present
            /\ Contains(rules, RequireRule) =>
                 /\ Contains(passed,
                             <<"Required file exists", Chars["a.json"]>>)
                        <=> present
                 /\ Contains(failed,
                             <<"Required file missing", Chars["a.json"]>>)
                        <=> ~present
            /\ Contains(rules, ManualRule) =>
                 Contains(passed, <<"Manual rule (not testable)", ManualRule>>)

\* check_rules has returned with the four kinds of rule stored, a.json
\* present and the command exiting with status 1: the manual and the
\* require-file rule pass, the cmd and the no-file rule fail.
C12_Witness ==
    /\ last.op = "check_rules"
    /\ last.raised = ""
    /\ \A rule \in {CmdRule, NoFileRule, RequireRule, ManualRule} :
          Contains(Guardrails(state_file), rule)
    /\ IsFile(files, "a.json")
    /\ last.args[1][<<"x">>] = "exit 1"
    /\ Len(last.ret.passed) = 2
    /\ Len(last.ret.failed) = 2

\* C13 as stated: with any rules that add_rule accepted stored in a
\* loadable state document, check_rules raises nothing and returns one
\* entry per stored rule, a command that times out or cannot be launched
\* giving a failed entry.
C13_RuleFaultsCaptured ==
    (last.op = "check_rules" /\ Loads(state_file)) =>
        /\ last.raised = ""
        /\ Len(last.ret.passed) + Len(last.ret.failed)
               = Len(Guardrails(state_file))
        /\ (/\ Contains(Guardrails(state_file), CmdRule)
             /\ last.args[1][<<"x">>] \in {"TimeoutExpired", "OSError"})
            => last.ret.failed # <<>>

-----------------------------------------------------------------------------
(* Checkpoint slots *)

\* C14: save_checkpoint raises ValueError for a name that is empty after
\* trimming or holds a slash or a backslash; for a good name it raises
\* FileNotFoundError when there is no live document and a validation error
\* when the live document is schema-invalid; and whenever it raises, the
\* checkpoint files, the checkpoint directory and the live document are
\* what they were.
C14_SaveCheckpointFails ==
    [][last'.op = "save_checkpoint" =>
          LET stripped == strip(last'.args[1])
              good == /\ stripped # <<>>
                      /\ ~Contains(stripped, "/")
                      /\ ~Contains(stripped, "\\")
          IN  /\ ~good => last'.raised = "ValueError"
              /\ (good /\ state_file = None)
                    => last'.raised = "FileNotFoundError"
              /\ (good /\ state_file # None /\ ~Loads(state_file))
                    => last'.raised = "ValidationError"
              /\ last'.raised # "" =>
                    /\ checkpoints' = checkpoints
                    /\ cp_dir' = cp_dir
                    /\ state_file' = state_file
      ]_vars

\* save_checkpoint has just refused a good name because the live document
\* is schema-invalid, with an older checkpoint of that name left as it was.
C14_Witness ==
    /\ last.op = "save_checkpoint"
    /\ last.args = <<<<"v", "1", " ">>>>
    /\ last.raised = "ValidationError"
    /\ state_file # None
    /\ checkpoints[<<"v", "1">>] # None
    /\ Loads(checkpoints[<<"v", "1">>])

\* C15: a successful save_checkpoint(n) leaves in the slot of the trimmed
\* name the live document byte for byte, whatever the slot held, touches
\* no other slot and not the live document; a rollback_checkpoint(n) from
\* there yields that document, and list_checkpoints holds n exactly once.
C15_SaveOverwrites ==
    [][(last'.op = "save_checkpoint" /\ last'.raised = "") =>
          LET n == strip(last'.args[1])
              listed == list_checkpoints(cp_dir', checkpoints').ret
          IN  /\ checkpoints'[n] = state_file
              /\ \A other \in Stems \ {n} :
                     checkpoints'[other] = checkpoints[other]
              /\ state_file' = state_file
              /\ rollback_checkpoint(state_file', cp_dir', checkpoints',
                                     last'.args[1])
                     = [outcome |-> Return(None), file |-> state_file]
              /\ Cardinality({i \in 1..Len(listed) : listed[i] = n}) = 1
      ]_vars

\* save_checkpoint has just overwritten a checkpoint that held another
\* document than the live one, taken before a rule was added.
C15_Witness ==
    /\ last.op = "save_checkpoint"
    /\ last.raised = ""
    /\ cp_before[last.ret] # None
    /\ cp_before[last.ret] # state_file
    /\ Loads(cp_before[last.ret])
    /\ Guardrails(cp_before[last.ret]) = <<>>
    /\ Guardrails(checkpoints[last.ret]) = <<RuleOnce>>

\* Whether a checkpoint was saved under the trimmed `name` and is still
\* there: names that save_checkpoint refuses never are.
CheckpointExists(cps, name) ==
    strip(name) \in Stems /\ cps[strip(name)] # None

\* C16 as stated: rollback_checkpoint of a name under which no checkpoint
\* exists raises FileNotFoundError and leaves the live document and all
\* checkpoints as they were.
C16_RollbackNotFound ==
    [][(last'.op = "rollback_checkpoint"
        /\ ~CheckpointExists(checkpoints, last'.args[1])) =>
          /\ last'.raised = "FileNotFoundError"
          /\ state_file' = state_file
          /\ checkpoints' = checkpoints
      ]_vars

\* C17: rollback_checkpoint of a checkpoint whose bytes are no schema-valid
\* document succeeds, the live document is those bytes, and load_state
\* then raises the validation error.
C17_RollbackUnvalidated ==
    (/\ last.op = "rollback_checkpoint"
     /\ CheckpointExists(checkpoints, last.args[1])
     /\ ~Loads(checkpoints[strip(last.args[1])]))
    => /\ last.raised = ""
       /\ state_file = checkpoints[strip(last.args[1])]
       /\ load_state(state_file).raised = "ValidationError"

\* A rollback has just put an invalid checkpoint in place of the live
\* document, while the checkpoint still records the valid document it was
\* saved from.
C17_Witness ==
    /\ last.op = "rollback_checkpoint"
    /\ last.raised = ""
    /\ state_file # None
    /\ ~Loads(state_file)
    /\ at_save[strip(last.args[1])] # None
    /\ Loads(at_save[strip(last.args[1])])
    /\ state_file = Corrupted(at_save[strip(last.args[1])])

\* C18: list_checkpoints raises nothing and returns, in ascending order
\* (by code point, so V2 before v1) and each once, exactly the trimmed
\* names saved and not deleted since; without a checkpoint directory it
\* returns the empty list.
C18_ListSorted ==
    last.op = "list_checkpoints" =>
        /\ last.raised = ""
        /\ {last.ret[i] : i \in 1..Len(last.ret)}
               = {n \in Stems : at_save[n] # None}
        /\ \A i, j \in 1..Len(last.ret) :
               i < j => Before(last.ret[i], last.ret[j])
        /\ \A i, j \in 1..Len(last.ret) :
               (last.ret[i] = <<"V", "2">> /\ last.ret[j] = <<"v", "1">>)
               => i < j
        /\ NoDuplicates(last.ret)
        /\ ~cp_dir => last.ret = <<>>

\* list_checkpoints has just returned the two names V2 and v1.
C18_Witness ==
    /\ last.op = "list_checkpoints"
    /\ Len(last.ret) = 2
    /\ at_save[<<"v", "1">>] # None
    /\ at_save[<<"V", "2">>] # None

\* C19 as stated: delete_checkpoint raises nothing, returns true iff a
\* checkpoint of the trimmed name existed, which is gone afterwards, and
\* changes neither the live document nor any other checkpoint.
C19_DeleteCheckpoint ==
    [][last'.op = "delete_checkpoint" =>
          LET n == strip(last'.args[1])
          IN  /\ last'.raised = ""
              /\ last'.ret <=> CheckpointExists(checkpoints, last'.args[1])
              /\ ~CheckpointExists(checkpoints', last'.args[1])
              /\ state_file' = state_file
              /\ \A other \in Stems \ {n} :
                     checkpoints'[other] = checkpoints[other]
      ]_vars

-----------------------------------------------------------------------------
(* Validator *)

\* C20 as stated: run_all_checks raises nothing and returns one entry for
\* each requested check (state file, git, test command unless skipped,
\* contracts), with the state document absent, valid or schema-invalid.
C20_ChecksIsolated ==
    last.op = "run_all_checks" =>
        /\ last.raised = ""
        /\ Len(last.ret.passed) + Len(last.ret.failed)
               = IF last.args[1] THEN 4 ELSE 3

\* C21: when run_all_checks returns, ok is true iff each requested check
\* passed (state file, git, contracts, and the test command only when
\* run_tests is set); with run_tests false the report has three entries and
\* none of them is the test-command check's, so ok does not depend on how
\* the test command would end or on whether one is configured.
C21_OkIffAllPassed ==
    last.op = "run_all_checks" /\ last.raised = "" =>
        LET run_tests == last.args[1]
            git_dir == last.args[2]
            tests == last.args[3]
            state_check == check_state_file(state_file).ret
            git_check == check_git(git_dir).ret
            test_check == check_test_command(state_file, tests).ret
            contract_check == check_contracts(state_file, files).ret
            entries == last.ret.passed \o last.ret.failed
        IN  /\ ValidationOk(last.ret)
                <=> /\ state_check[1]
                    /\ git_check[1]
                    /\ run_tests => test_check[1]
                    /\ contract_check[1]
            /\ ~run_tests =>
                   /\ Len(entries) = 3
                   /\ \A i \in 1..Len(entries) : entries[i] # test_check[2]

\* A report with run_tests false that is ok although the configured test
\* command would have failed.
C21_Witness ==
    /\ last.op = "run_all_checks" /\ last.raised = ""
    /\ ~last.args[1]
    /\ ValidationOk(last.ret)
    /\ last.args[3] = "exit 1"
    /\ load_state(state_file).ret.test_command = "pytest"

-----------------------------------------------------------------------------
(* Loading *)

\* Whether the document in `file` holds an agent or a component status
\* outside the closed enumerations.
UnrecognisedEnum(file) ==
    LET raw == yaml_safe_load(file[1])
    IN  \/ raw.agent \notin {"claude-code", "cursor", "copilot", "other"}
        \/ \E i \in 1..Len(raw.components) :
               raw.components[i][2].status
                   \notin {"pending", "in_progress", "complete", "blocked"}

\* C22: load_state raises FileNotFoundError iff the state file is absent;
\* when the file exists and its agent or a component status is outside its
\* enumeration it raises a schema error, which is not FileNotFoundError; a
\* state that load_state returns carries only members of the enumerations.
C22_LoadErrors ==
    last.op = "load_state" =>
        /\ last.raised = "FileNotFoundError" <=> state_file = None
        /\ state_file # None /\ UnrecognisedEnum(state_file) =>
               last.raised = "ValidationError"
        /\ last.raised = "" =>
               /\ last.ret.agent \in DOMAIN AgentType
               /\ \A i \in 1..Len(last.ret.components) :
                      last.ret.components[i][2].status
                          \in DOMAIN ComponentStatus

\* load_state has rejected a document whose agent is recognised and whose
\* component status is not.
C22_Witness ==
    /\ last.op = "load_state"
    /\ last.raised = "ValidationError"
    /\ state_file # None
    /\ yaml_safe_load(state_file[1]).agent = "other"
    /\ UnrecognisedEnum(state_file)

-----------------------------------------------------------------------------
(* init_state *)

\* C23: whatever the state document held before (nothing, components,
\* sessions and guardrails, or an invalid document), after init_state the
\* persisted document loads with the identity fields given and with empty
\* components, sessions and guardrails; the checkpoint directory and every
\* checkpoint file are as before.
C23_InitOverwrites ==
    [][last'.op = "init_state" =>
          LET loaded == load_state(state_file')
          IN  /\ loaded.raised = ""
              /\ loaded.ret.project = last'.args[1]
              /\ loaded.ret.agent = last'.args[2]
              /\ loaded.ret.stack = last'.args[3]
              /\ loaded.ret.test_command = last'.args[4]
              /\ loaded.ret.components = <<>>
              /\ loaded.ret.sessions = <<>>
              /\ loaded.ret.guardrails = <<>>
              /\ checkpoints' = checkpoints
              /\ cp_dir' = cp_dir
      ]_vars

\* init_state has run with another project name in a project that holds a
\* checkpoint of a document with a component, a session and a guardrail.
C23_Witness ==
    /\ last.op = "init_state"
    /\ last.args[1] = "modified"
    /\ \E n \in Stems :
           /\ checkpoints[n] # None
           /\ LET held == load_state(checkpoints[n]).ret
              IN  /\ held.project = "proj"
                  /\ held.components # <<>>
                  /\ held.sessions # <<>>
                  /\ held.guardrails # <<>>

-----------------------------------------------------------------------------
(* save_state *)

\* C24: every save_state call sets last_updated of the state it is given to
\* the instant of the call and leaves every other field of it as it was, and
\* the document it writes loads as that state: it differs from the state
\* passed in only in last_updated.
C24_SaveStamps ==
    [][last'.op = "save_state" =>
          LET loaded == load_state(state_file')
          IN  /\ state'[1].last_updated = clock
              /\ state'[1] = [state[1] EXCEPT !.last_updated = clock]
              /\ loaded.raised = ""
              /\ loaded.ret.last_updated = clock
              /\ loaded.ret = [state[1] EXCEPT !.last_updated = clock]
      ]_vars

\* A state with a component, a session and a guardrail has been saved after
\* the clock advanced, and carries the instant of the save in memory and on
\* disk.
C24_Witness ==
    /\ last.op = "save_state"
    /\ clock > 0
    /\ state[1].last_updated = clock
    /\ LastUpdated(state_file) = clock
    /\ state[1].components # <<>>
    /\ state[1].sessions # <<>>
    /\ state[1].guardrails # <<>>

-----------------------------------------------------------------------------
(* Sessions *)

\* Whether `old` is a prefix of `new`.
IsPrefix(old, new) ==
    /\ Len(old) <= Len(new)
    /\ \A i \in 1..Len(old) : new[i] = old[i]

\* C25: add_session leaves the existing sessions of the state it is given
\* in place and puts exactly one new session, with the summary given, after
\* them; add_component and save_state leave the sessions of the state they
\* are given as they are, save_state writing them as they are; add_rule and
\* remove_rule write the sessions of the document they loaded as they are.
\* In each case the sessions before are a prefix of the sessions after, and
\* so are the sessions of the persisted document before and after the call.
C25_SessionsAppendOnly ==
    [][/\ last'.op = "add_session" =>
              /\ IsPrefix(state[1].sessions, state'[1].sessions)
              /\ Len(state'[1].sessions) = Len(state[1].sessions) + 1
              /\ state'[1].sessions[Len(state'[1].sessions)].summary
                     = last'.args[1]
       /\ last'.op = "add_component" =>
              state'[1].sessions = state[1].sessions
       /\ last'.op = "save_state" =>
              /\ state'[1].sessions = state[1].sessions
              /\ load_state(state_file').ret.sessions = state[1].sessions
       /\ last'.op \in {"add_rule", "remove_rule"} /\ last'.raised = "" =>
              /\ IsPrefix(load_state(state_file).ret.sessions,
                          load_state(state_file').ret.sessions)
              /\ load_state(state_file').ret.sessions
                     = load_state(state_file).ret.sessions
       /\ /\ last'.op \in {"add_session", "add_component", "save_state",
                           "add_rule", "remove_rule"}
          /\ state_file # None
          => IsPrefix(load_state(state_file).ret.sessions,
                      load_state(state_file').ret.sessions)
      ]_vars

\* add_session has put a second session, with another summary, after the
\* one the state already held.
C25_Witness ==
    /\ last.op = "add_session"
    /\ Len(state[1].sessions) = 2
    /\ state[1].sessions[1].summary # state[1].sessions[2].summary
    /\ state[1].sessions[2].summary = last.args[1]

-----------------------------------------------------------------------------
(* Sync *)

\* Whether CLAUDE.md holds what a sync of the document in `file` writes,
\* the "Last synced" line apart.
HoldsSyncOf(claude, file) ==
    /\ claude # None
    /\ Loads(file)
    /\ compute_diff_without_timestamp(
           claude[1], generate_claude_md(file, 0).ret) = None

\* C26 as stated: when CLAUDE.md holds the output of a previous sync of the
\* state document as it is now, a sync without force (and without preview)
\* reports that the file is up to date, does not ask for confirmation and
\* leaves the file as it is.
C26_SyncIdempotent ==
    [][/\ last'.op = "sync"
       /\ ~last'.args[1] /\ ~last'.args[2]
       /\ HoldsSyncOf(claude_md, state_file)
       => /\ last'.raised = ""
          /\ last'.ret.said = "already up to date"
          /\ ~last'.ret.asked
          /\ claude_md' = claude_md
      ]_vars

-----------------------------------------------------------------------------
(* CLI *)

\* Whether the call ended in success: it returned and, for a command that
\* runs checks, every check passed.
Succeeded(call) ==
    /\ call.raised = ""
    /\ call.op = "run_all_checks" => ValidationOk(call.ret)
    /\ call.op = "detect_drift" => DriftOk(call.ret)
    /\ call.op = "check_rules" => GuardOk(call.ret)

\* C27 as stated: a command exits 0 on success; validate, drift and guard
\* test exit 1 exactly when the checks ran (the call returned a result) and
\* at least one failed; a command that reads the state document exits 2
\* when it is absent or invalid; checkpoint save exits 2 on an invalid name
\* and checkpoint rollback exits 2 on a name no checkpoint carries.
C27_ExitCodes ==
    last.op \in Commanded =>
        /\ Succeeded(last) => ExitStatus(last) = 0
        /\ last.op \in {"run_all_checks", "detect_drift", "check_rules"} =>
               (ExitStatus(last) = 1 <=> last.raised = "" /\ ~Succeeded(last))
        /\ last.op # "rollback_checkpoint" /\ ~Loads(state_file) =>
               ExitStatus(last) = 2
        /\ last.op = "save_checkpoint" /\ ~ValidName(strip(last.args[1])) =>
               ExitStatus(last) = 2
        /\ /\ last.op = "rollback_checkpoint"
           /\ ~CheckpointExists(cp_before, last.args[1])
           => ExitStatus(last) = 2

-----------------------------------------------------------------------------
(* Concurrent invocations *)

\* The position in the log of invocation p's event.
At(event, p) ==
    CHOOSE i \in 1..Len(inflight.log) : inflight.log[i] = <<event, p>>

\* Both invocations had a rule to append, went on to save and have
\* returned.
BothSaved ==
    \A p \in Invocations :
        /\ inflight.calls[p].pc = "done"
        /\ \E i \in 1..Len(inflight.log) : inflight.log[i] = <<"open", p>>

\* The two invocations were given different rules.
DifferentRules ==
    \A p, q \in Invocations :
        p # q => inflight.calls[p].rule # inflight.calls[q].rule

\* Both loads came before both saves began.
LoadsPrecedeSaves ==
    \A p, q \in Invocations : At("load", p) < At("open", q)

\* One save began while the other was between its open and its write.
SavesOverlap ==
    \E p, q \in Invocations :
        /\ p # q
        /\ At("open", p) < At("open", q)
        /\ At("open", q) < At("write", p)

\* The invocation whose write came last.
SavedLast == inflight.log[Len(inflight.log)][2]

\* What C28 says of the outcome: neither invocation reports an error, the
\* document is the in-memory state of the invocation that saved last, and
\* the rule of the other one is not in it.
LaterWriterWins ==
    /\ \A p \in Invocations : inflight.calls[p].raised = ""
    /\ state_file = Written(inflight.calls[SavedLast].state)
    /\ \A p \in Invocations \ {SavedLast} :
           ~Contains(Guardrails(state_file), inflight.calls[p].rule)

\* C28 as stated: whenever two invocations given different rules
\* interleave so that both loads precede both saves, the later writer wins.
C28_LaterWriterWinsAlways ==
    BothSaved /\ DifferentRules /\ LoadsPrecedeSaves => LaterWriterWins

\* C28: when two invocations given different rules interleave so that both
\* loads precede both saves and the two saves do not overlap each other, neither invocation reports an error, the final
\* document is the in-memory state of the invocation that saved last, and
\* the earlier writer's rule is lost.
C28_LaterWriterWins ==
    BothSaved /\ DifferentRules /\ LoadsPrecedeSaves /\ ~SavesOverlap
        => LaterWriterWins

\* Two invocations loaded the same document, appended different rules and
\* saved one after the other; the document holds the second one's rule
\* only.
C28_Witness ==
    /\ BothSaved /\ DifferentRules /\ LoadsPrecedeSaves /\ ~SavesOverlap
    /\ LaterWriterWins

-----------------------------------------------------------------------------
(* Validator and drift detector *)

\* The component names a message of check_contracts reports.
Mismatching(message) ==
    IF Len(message) = 2 /\ message[1] = "Contract drift detected"
    THEN {message[2][i][1] : i \in 1..Len(message[2])}
    ELSE {}

\* C29: on every state document that loads and every content of the
\* schema files, check_contracts passes iff detect_drift(...).ok, and the
\* components its message reports are exactly those in the drifted and
\* missing buckets; the result detect_drift returned and the contracts
\* entry of the report run_all_checks returned are the ones compared.
C29_ValidatorAgreesWithDrift ==
    /\ Loads(state_file)
    /\ last.op \in {"detect_drift", "run_all_checks"}
    /\ last.raised = ""
    => LET contracts == check_contracts(state_file, files).ret
           result == detect_drift(state_file, files).ret
       IN  /\ contracts[1] <=> DriftOk(result)
           /\ Mismatching(contracts[2])
                  = {result.drifted[i] : i \in 1..Len(result.drifted)}
                    \cup {result.missing[i] : i \in 1..Len(result.missing)}
           /\ last.op = "detect_drift" => last.ret = result
           /\ last.op = "run_all_checks" =>
                  LET entries == IF contracts[1]
                                 THEN last.ret.passed
                                 ELSE last.ret.failed
                  IN  entries[Len(entries)] = contracts[2]

\* The validator has run on a document of two components, one without a
\* contract and one whose schema file has changed or is gone.
C29_Witness ==
    /\ last.op = "run_all_checks"
    /\ last.raised = ""
    /\ Loads(state_file)
    /\ LET result == detect_drift(state_file, files).ret
       IN  /\ result.drifted # <<>> \/ result.missing # <<>>
           /\ Len(result.drifted) + Len(result.missing)
                  + Len(result.no_contract) = 2
           /\ result.no_contract # <<>>

-----------------------------------------------------------------------------
(* Checkpoint isolation *)

=============================================================================
